---- MODULE Spec2Model ----
(***************************************************************************)
(* Tenant session lifecycle manager of shalom-orders.                      *)
(*                                                                         *)
(* The TenantManager singleton (src/unnamed/part_001) is modelled as a set *)
(* of asynchronous calls.  Every call is a stack of frames, one frame per  *)
(* async function that is running; one action is one segment of code       *)
(* between two awaits (the completion of the awaited driver or database    *)
(* call together with the synchronous code that follows it).               *)
(***************************************************************************)
EXTENDS Integers, Sequences, FiniteSets, TLC

\* ------------------------------------------------------------------ bounds
NumKeys == 2        \* credential keys (uuids) that exist in the universe
NumProcs == 2       \* calls that may be in flight at the same time
MaxCtx == 3         \* automation contexts opened during one process life
MaxOps == 3         \* calls started during one process life
MaxRaceOps == 4     \* the same, in the concurrency specification
MaxHttpOps == 4     \* the same, in the specification of the HTTP layer
MaxBodyOps == 4     \* the same, in the specification of the request bodies
MaxStartupOps == 3  \* the same, in the specification of the overlapping starts
MaxLen == 5         \* longest security code given to the validator
MaxFaults == 1      \* driver / durable-store failures injected
MaxRestarts == 1    \* process restarts
MaxRetries == 2     \* largest retries argument given to login
MaxLoginOps == 4    \* calls started in the login specification
MaxShutOps == 4     \* calls started in the shutdown specification
MaxFlowOps == 2     \* shipments requested in the workflow specification
MaxContent == 5     \* longest page content given to the result extraction
MaxEntries == 3     \* order labels on the page of pending shipments
MaxTrackOps == 4    \* calls of the tracker and of the agency service

Keys == 1..NumKeys
Procs == 1..NumProcs
Ctxs == 1..MaxCtx
Users == {"u1", "u2"}
Passwords == {"good", "bad"}
Null == "null"

\* --------------------------------------------------------------- variables
VARIABLES
  db,           \* durable store: credentialKey -> record of table "instances"
  instances,    \* this.instances: credentialKey -> instance object (0: absent)
  obj,          \* instance objects: the context, its page and the username
  nctx,         \* contexts opened so far (the next one is nctx + 1)
  browser,      \* this.browser is non-null
  initialized,  \* this.initialized
  nextKey,      \* uuid generator: keys below nextKey have been issued
  site,         \* the external site honours the session cookie of a tenant
  stk,          \* per call: the stack of frames of running async functions
  call,         \* per call: the operation and its arguments
  result,       \* per call: the outcome of the last operation
  drove,        \* per call: a driver interaction was made on its behalf
  subs,         \* per call: the credential submissions made by it
  outs,         \* per call: what each attempt of _attemptLogin ended with,
                \* and what the site showed at the end of a shipment workflow
  declined,     \* per call: the offers that its shipment workflow has declined
  logged,       \* per key: the username and id of the session when login last
                \* returned success (cleared by logout and closeInstance)
  known,        \* the credential keys that createInstance has returned
  ops, faults, restarts,
  svc           \* the tracker and the agency service: the flag `processing` of
                \* each, and the tracking result held by the cache

vars == <<db, instances, obj, nctx, browser, initialized, nextKey, site,
          stk, call, result, drove, subs, outs, declined, logged, known, ops, faults, restarts,
          svc>>

mgrVars == <<instances, obj, nctx, browser, initialized>>

\* ---------------------------------------------------------------- records
\* a row of the table "instances" (timestamps are not modelled)
NoRec == [exists |-> FALSE, id |-> 0, username |-> Null, storageState |-> Null]
NewRec(id) == [exists |-> TRUE, id |-> id, username |-> Null, storageState |-> Null]

\* uuidv4() for the id column: the id generated together with key k
IdOf(k) == 100 + k

\* an instance object {id, apiKey, context, page, username}
NoObj == [key |-> 0, id |-> 0, open |-> FALSE, url |-> "none", cookie |-> FALSE,
          username |-> Null]

\* values passed between frames and returned to the caller; body is the kind
\* of object that the value is, which a reply keeps next to its status
Val(tag, inst, user, msg) ==
  [tag |-> tag, body |-> tag, inst |-> inst, user |-> user, msg |-> msg, key |-> 0, id |-> 0,
   registrationNumber |-> <<>>, shipments |-> <<>>, captured |-> {}]
\* the pair {apiKey, id} returned by createInstance
Created(k, id, c) == [Val("created", c, Null, "") EXCEPT !.key = k, !.id = id]
NoLogin == [user |-> Null, id |-> 0]
NoVal == Val("none", 0, Null, "")
InstVal(c) == Val(IF c = 0 THEN "null" ELSE "instance", c, Null, "")
Err(msg) == Val("error", 0, Null, msg)

\* the services start with their lock free and an empty cache
\* (src/src/tracker.js:5-16, src/src/tenantManager.js:565-570)
Services == {"tracker", "agency"}
NoSvc == [processing |-> [s \in Services |-> FALSE], cache |-> <<>>]

NoCall == [op |-> "none", key |-> 0, user |-> Null, pw |-> Null, retries |-> 0,
           code |-> <<>>, instanceId |-> 0, warranty |-> FALSE, secureBilling |-> FALSE,
           content |-> <<>>, title |-> Null, labels |-> <<>>,
           filePath |-> FALSE, shipments |-> "absent"]
Idle == [state |-> "idle", val |-> NoVal]

\* a frame of an async function
Fr(fn, pc, key) ==
  [fn |-> fn, pc |-> pc, key |-> key, user |-> Null, pw |-> Null, retries |-> 0,
   att |-> 0, step |-> 0, inst |-> 0, id |-> 0, rec |-> NoRec,
   snap |-> [k \in Keys |-> NoRec], todo |-> {}, flag |-> FALSE, blob |-> Null,
   code |-> <<>>, res |-> NoVal, rv |-> NoVal]

isShuttingDown == FALSE

\* ------------------------------------------------------------ frame stacks
Top(p) == stk[p][Len(stk[p])]
At(p, fn, pc) == stk[p] # <<>> /\ Top(p).fn = fn /\ Top(p).pc = pc

Goto(s, pc) == [s EXCEPT ![Len(s)].pc = pc]
With(s, f) == [s EXCEPT ![Len(s)] = f]
Pop(s) == SubSeq(s, 1, Len(s) - 1)
Ret(s, v) == IF Len(s) = 1 THEN <<>> ELSE [Pop(s) EXCEPT ![Len(s) - 1].rv = v]

\* try/catch: the frames (function, position) that catch a rejection
Catches(f) ==
  \/ f.fn = "initialize" /\ f.pc \in {"launch", "find", "loop"}
  \/ f.fn \in {"register", "shipments"} /\ f.pc = "called"

\* the inner catch of the restore loop only logs (part_001:59-61); the outer
\* one sets initialized (part_001:68-73); the route handlers reply 500
\* (part_000:454-460, 979-983)
Caught(f, msg) ==
  IF f.fn = "initialize" /\ f.pc = "loop" THEN [f EXCEPT !.rv = Err(msg)]
  ELSE [f EXCEPT !.pc = "catch", !.rv = Err(msg)]

RECURSIVE Unwind(_, _)
Unwind(s, msg) ==
  IF s = <<>> THEN <<>>
  ELSE IF Catches(s[Len(s)]) THEN With(s, Caught(s[Len(s)], msg))
  ELSE Unwind(Pop(s), msg)

\* the three ways a segment ends
Continue(p, s) == stk' = [stk EXCEPT ![p] = s] /\ UNCHANGED result
Return(p, v) ==
  /\ stk' = [stk EXCEPT ![p] = Ret(stk[p], v)]
  /\ result' = IF Len(stk[p]) = 1
               THEN [result EXCEPT ![p] = [state |-> "returned", val |-> v]]
               ELSE result
Throw(p, msg) ==
  /\ stk' = [stk EXCEPT ![p] = Unwind(stk[p], msg)]
  /\ result' = IF Unwind(stk[p], msg) = <<>>
               THEN [result EXCEPT ![p] = [state |-> "threw", val |-> Err(msg)]]
               ELSE result

\* an injected failure of the awaited call
CanFail == faults < MaxFaults

Drive(p) ==
  drove' = [drove EXCEPT ![p] = TRUE] /\ UNCHANGED <<subs, outs, declined, logged, known>>


envVars == <<nextKey, call, ops, restarts, svc>>
obsVars == <<drove, subs, outs, declined, logged, known>>

\* the awaited call completes (ok) or, within the budget, fails
Outcome(ok) == (ok \/ CanFail) /\ faults' = IF ok THEN faults ELSE faults + 1

\* --------------------------------------------------- calls between frames
\* `await this.initialize()`: the synchronous head of initialize runs in the
\* caller's segment (part_001:28-36)
CallInitialize(s, cont) ==
  IF initialized \/ isShuttingDown THEN Goto(s, cont)
  ELSE Append(Goto(s, cont), Fr("initialize", IF browser THEN "find" ELSE "launch", 0))

\* an operation's first segment: `await this.initialize()`
EnterWith(s, f) == CallInitialize(Append(s, f), "afterInit")
Enter(s, fn, k) == EnterWith(s, Fr(fn, "afterInit", k))

\* `await this._restoreInstance(dbInstance)` (part_001:76-77)
CallRestore(s, cont, k, rec) ==
  LET f == [Fr("restoreInstance", "ctx", k) EXCEPT !.rec = rec]
  IN IF browser THEN Append(Goto(s, cont), f)
     ELSE CallInitialize(Append(Goto(s, cont), f), "ctx")

\* `await this._saveStorageState(apiKey)` (part_001:147-155)
CallSave(s, cont, k) ==
  IF instances[k] = 0 THEN Goto(s, cont)
  ELSE Append(Goto(s, cont), [Fr("saveStorageState", "state", k) EXCEPT !.inst = instances[k]])

\* `await this.getOrRestoreInstance(apiKey)` (part_001:231-238)
CallGetOrRestore(s, cont, k) ==
  IF instances[k] # 0
  THEN With(s, [s[Len(s)] EXCEPT !.pc = cont, !.rv = InstVal(instances[k])])
  ELSE Append(Goto(s, cont), Fr("getOrRestoreInstance", "find", k))

\* what the page shows after a navigation of context c to the site
Landing(c) == IF obj[c].cookie /\ site[obj[c].key] THEN "app" ELSE "login"

\* context.storageState(): the serialized cookies of context c
StorageStateOf(c) == IF obj[c].cookie THEN "auth" ELSE "anon"

\* ----------------------------------------------------------- initialize
\* chromium.launch() completes (part_001:36-44); a failure goes to the catch
initialize_launch(p) ==
  /\ At(p, "initialize", "launch")
  /\ \E ok \in BOOLEAN :
       /\ Outcome(ok)
       /\ IF ok THEN browser' = TRUE /\ Continue(p, Goto(stk[p], "find"))
          ELSE UNCHANGED browser /\ Throw(p, "launch failed")
  /\ UNCHANGED <<db, instances, obj, nctx, initialized, site, obsVars, envVars>>

\* db.instance.findMany() completes (part_001:46-49)
initialize_find(p) ==
  /\ At(p, "initialize", "find")
  /\ \E ok \in BOOLEAN :
       /\ Outcome(ok)
       /\ IF ok
          THEN Continue(p, With(stk[p], [Top(p) EXCEPT !.pc = "loop", !.snap = db,
                                         !.todo = {k \in Keys : db[k].exists}]))
          ELSE Throw(p, "findMany failed")
  /\ UNCHANGED <<db, mgrVars, site, obsVars, envVars>>

\* one turn of the restore loop, or its end (part_001:51-67)
initialize_loop(p) ==
  /\ At(p, "initialize", "loop")
  /\ IF Top(p).todo = {}
     THEN initialized' = TRUE /\ Return(p, NoVal)
     ELSE /\ UNCHANGED initialized
          /\ \E k \in Top(p).todo :
               Continue(p, CallRestore(With(stk[p], [Top(p) EXCEPT !.todo = @ \ {k}]),
                                       "loop", k, Top(p).snap[k]))
  /\ UNCHANGED <<db, instances, obj, nctx, browser, site, obsVars, faults, envVars>>

\* the outer catch (part_001:68-73)
initialize_catch(p) ==
  /\ At(p, "initialize", "catch")
  /\ initialized' = TRUE
  /\ Return(p, NoVal)
  /\ UNCHANGED <<db, instances, obj, nctx, browser, site, obsVars, faults, envVars>>

\* ------------------------------------------------------- _restoreInstance
\* browser.newContext(...) completes (part_001:79-92): seeded with the stored
\* state when there is one, unseeded after a failure of the seeded attempt
\* the same with a context obtained whether or not the engine is there
restoreInstance_ctx_engineless(p) ==
  /\ stk[p] # <<>> /\ Top(p).fn = "restoreInstance" /\ Top(p).pc \in {"ctx", "ctxFallback"}
  /\ LET f == Top(p)
     IN /\ nctx < MaxCtx
        /\ nctx' = nctx + 1
        /\ obj' = [obj EXCEPT ![nctx + 1] =
                     [key |-> f.key, id |-> f.rec.id, open |-> TRUE, url |-> "blank",
                      cookie |-> f.pc = "ctx" /\ f.rec.storageState = "auth",
                      username |-> Null]]
        /\ Continue(p, With(stk[p], [f EXCEPT !.pc = "goto", !.inst = nctx + 1]))
  /\ Drive(p)
  /\ UNCHANGED <<db, instances, browser, initialized, site, faults, envVars>>

restoreInstance_ctx(p) ==
  /\ stk[p] # <<>> /\ Top(p).fn = "restoreInstance" /\ Top(p).pc \in {"ctx", "ctxFallback"}
  /\ LET f == Top(p)
         seeded == f.pc = "ctx" /\ f.rec.storageState # Null
     IN IF ~browser
        THEN /\ Throw(p, "Cannot read properties of null")
             /\ UNCHANGED <<obj, nctx, faults, obsVars>>
        ELSE \E ok \in BOOLEAN :
               /\ Outcome(ok)
               /\ Drive(p)
               /\ IF ok
                  THEN /\ nctx < MaxCtx
                       /\ nctx' = nctx + 1
                       /\ obj' = [obj EXCEPT ![nctx + 1] =
                                    [key |-> f.key, id |-> f.rec.id, open |-> TRUE,
                                     url |-> "blank",
                                     cookie |-> seeded /\ f.rec.storageState = "auth",
                                     username |-> Null]]
                       /\ Continue(p, With(stk[p], [f EXCEPT !.pc = "goto", !.inst = nctx + 1]))
                  ELSE /\ UNCHANGED <<obj, nctx>>
                       /\ IF seeded THEN Continue(p, Goto(stk[p], "ctxFallback"))
                          ELSE Throw(p, "newContext failed")
  /\ UNCHANGED <<db, instances, browser, initialized, site, envVars>>

\* a restore that registers the session without the stored username
restoreInstance_goto_nameless(p) ==
  /\ At(p, "restoreInstance", "goto")
  /\ Drive(p)
  /\ LET f == Top(p)
         c == f.inst
         isLoggedIn == Landing(c) # "login"
     IN \E ok \in BOOLEAN :
          /\ Outcome(ok)
          /\ IF ok
             THEN /\ obj' = [obj EXCEPT ![c].url = Landing(c)]
                  /\ instances' = [instances EXCEPT ![f.key] = c]
                  /\ Continue(p, With(stk[p], [f EXCEPT !.pc = "touch", !.flag = isLoggedIn]))
             ELSE /\ UNCHANGED <<obj, instances>>
                  /\ Throw(p, "goto failed")
  /\ UNCHANGED <<db, nctx, browser, initialized, site, envVars>>

\* a restore that binds the stored username whatever the page shows
restoreInstance_goto_bound(p) ==
  /\ At(p, "restoreInstance", "goto")
  /\ Drive(p)
  /\ LET f == Top(p)
         c == f.inst
         isLoggedIn == Landing(c) # "login"
     IN \E ok \in BOOLEAN :
          /\ Outcome(ok)
          /\ IF ok
             THEN /\ obj' = [obj EXCEPT ![c].url = Landing(c), ![c].username = f.rec.username]
                  /\ instances' = [instances EXCEPT ![f.key] = c]
                  /\ Continue(p, With(stk[p], [f EXCEPT !.pc = "touch", !.flag = isLoggedIn]))
             ELSE /\ UNCHANGED <<obj, instances>>
                  /\ Throw(p, "goto failed")
  /\ UNCHANGED <<db, nctx, browser, initialized, site, envVars>>

\* newPage, route, goto the site root, wait; then the session is registered
\* and the lastUsedAt update is issued (part_001:94-134). The auto-login of
\* part_001:108-118 needs dbInstance.password, a column the table does not
\* have (migration.sql:2-12): the branch is never taken
restoreInstance_goto(p) ==
  /\ At(p, "restoreInstance", "goto")
  /\ Drive(p)
  /\ LET f == Top(p)
         c == f.inst
         isLoggedIn == Landing(c) # "login"
     IN \E ok \in BOOLEAN :
          /\ Outcome(ok)
          /\ IF ok
             THEN /\ obj' = [obj EXCEPT ![c].url = Landing(c),
                                        ![c].username = IF isLoggedIn THEN f.rec.username ELSE Null]
                  /\ instances' = [instances EXCEPT ![f.key] = c]
                  /\ Continue(p, With(stk[p], [f EXCEPT !.pc = "touch", !.flag = isLoggedIn]))
             ELSE /\ UNCHANGED <<obj, instances>>
                  /\ Throw(p, "goto failed")
  /\ UNCHANGED <<db, nctx, browser, initialized, site, envVars>>

\* db.instance.update({lastUsedAt}) completes (part_001:130-140)
restoreInstance_touch(p) ==
  /\ At(p, "restoreInstance", "touch")
  /\ LET f == Top(p)
     IN \E ok \in BOOLEAN :
          /\ Outcome(ok)
          /\ IF ok /\ db[f.key].exists
             THEN IF f.flag THEN Continue(p, CallSave(stk[p], "done", f.key))
                  ELSE Return(p, NoVal)
             ELSE Throw(p, "update failed")
  /\ UNCHANGED <<db, mgrVars, site, obsVars, envVars>>

restoreInstance_done(p) ==
  /\ At(p, "restoreInstance", "done")
  /\ Return(p, NoVal)
  /\ UNCHANGED <<db, mgrVars, site, obsVars, faults, envVars>>

\* ------------------------------------------------------ _saveStorageState
\* context.storageState() completes (part_001:154-163); every failure is
\* swallowed by the catch (part_001:165-170)
saveStorageState_state(p) ==
  /\ At(p, "saveStorageState", "state")
  /\ LET f == Top(p)
     IN \E ok \in BOOLEAN :
          /\ Outcome(ok)
          /\ IF ok /\ obj[f.inst].open
             THEN Continue(p, With(stk[p], [f EXCEPT !.pc = "update",
                                                     !.blob = StorageStateOf(f.inst)]))
             ELSE Return(p, NoVal)
  /\ Drive(p)
  /\ UNCHANGED <<db, mgrVars, site, envVars>>

\* db.instance.update({storageState, lastUsedAt}) completes
saveStorageState_update(p) ==
  /\ At(p, "saveStorageState", "update")
  /\ LET f == Top(p)
     IN \E ok \in BOOLEAN :
          /\ Outcome(ok)
          /\ db' = IF ok /\ db[f.key].exists
                   THEN [db EXCEPT ![f.key].storageState = f.blob]
                   ELSE db
  /\ Return(p, NoVal)
  /\ UNCHANGED <<mgrVars, site, obsVars, envVars>>


\* --------------------------------------------------------- createInstance
\* after initialize: launch the browser if there is none, else generate the
\* tokens and issue db.instance.create (part_001:176-200)
createInstance_afterInit(p) ==
  /\ At(p, "createInstance", "afterInit")
  /\ Continue(p, Goto(stk[p], IF browser THEN "create" ELSE "launch"))
  /\ UNCHANGED <<db, mgrVars, site, obsVars, faults, envVars>>

createInstance_launch(p) ==
  /\ At(p, "createInstance", "launch")
  /\ \E ok \in BOOLEAN :
       /\ Outcome(ok)
       /\ IF ok THEN browser' = TRUE /\ Continue(p, Goto(stk[p], "create"))
          ELSE UNCHANGED browser /\ Throw(p, "launch failed")
  /\ UNCHANGED <<db, instances, obj, nctx, initialized, site, obsVars, envVars>>

\* createInstance going on after a rejected db.instance.create
createInstance_create_lenient(p) ==
  /\ At(p, "createInstance", "create")
  /\ \E ok \in BOOLEAN :
       /\ Outcome(ok)
       /\ db' = IF ok THEN [db EXCEPT ![Top(p).key] = NewRec(Top(p).id)] ELSE db
       /\ Continue(p, Goto(stk[p], "ctx"))
  /\ UNCHANGED <<mgrVars, site, obsVars, envVars>>

\* db.instance.create({id, apiKey}) completes (part_001:194-202)
createInstance_create(p) ==
  /\ At(p, "createInstance", "create")
  /\ \E ok \in BOOLEAN :
       /\ Outcome(ok)
       /\ IF ok
          THEN /\ db' = [db EXCEPT ![Top(p).key] = NewRec(Top(p).id)]
               /\ Continue(p, Goto(stk[p], "ctx"))
          ELSE UNCHANGED db /\ Throw(p, "create failed")
  /\ UNCHANGED <<mgrVars, site, obsVars, envVars>>

\* browser.newContext() completes (part_001:202)
createInstance_ctx(p) ==
  /\ At(p, "createInstance", "ctx")
  /\ IF ~browser
     THEN /\ Throw(p, "Cannot read properties of null")
          /\ UNCHANGED <<obj, nctx, faults, obsVars>>
     ELSE \E ok \in BOOLEAN :
            /\ Outcome(ok)
            /\ Drive(p)
            /\ IF ok
               THEN /\ nctx < MaxCtx
                    /\ nctx' = nctx + 1
                    /\ obj' = [obj EXCEPT ![nctx + 1] =
                                 [key |-> Top(p).key, id |-> Top(p).id, open |-> TRUE,
                                  url |-> "blank", cookie |-> FALSE, username |-> Null]]
                    /\ Continue(p, With(stk[p], [Top(p) EXCEPT !.pc = "goto", !.inst = nctx + 1]))
               ELSE UNCHANGED <<obj, nctx>> /\ Throw(p, "newContext failed")
  /\ UNCHANGED <<db, instances, browser, initialized, site, envVars>>

\* newPage, route, goto /login, wait; then the session is registered and the
\* pair returned (part_001:203-224)
createInstance_goto(p) ==
  /\ At(p, "createInstance", "goto")
  /\ drove' = [drove EXCEPT ![p] = TRUE]
  /\ UNCHANGED <<subs, outs, declined, logged>>
  /\ LET f == Top(p)
     IN \E ok \in BOOLEAN :
          /\ Outcome(ok)
          /\ IF ok
             THEN /\ obj' = [obj EXCEPT ![f.inst].url = "login"]
                  /\ instances' = [instances EXCEPT ![f.key] = f.inst]
                  /\ known' = known \cup {f.key}
                  /\ Return(p, Created(f.key, f.id, f.inst))
             ELSE UNCHANGED <<obj, instances, known>> /\ Throw(p, "goto failed")
  /\ UNCHANGED <<db, nctx, browser, initialized, site, envVars>>

\* --------------------------------------------------- getOrRestoreInstance
getOrRestoreInstance_entry(p) ==
  /\ At(p, "getOrRestoreInstance", "entry")
  /\ IF instances[Top(p).key] # 0 THEN Return(p, InstVal(instances[Top(p).key]))
     ELSE Continue(p, Goto(stk[p], "find"))
  /\ UNCHANGED <<db, mgrVars, site, obsVars, faults, envVars>>

\* getOrRestoreInstance restoring whatever findFirst answers, a missing
\* record included
getOrRestoreInstance_find_any(p) ==
  /\ At(p, "getOrRestoreInstance", "find")
  /\ LET k == Top(p).key
     IN \E ok \in BOOLEAN :
          /\ Outcome(ok)
          /\ IF ~ok THEN Throw(p, "findFirst failed")
             ELSE Continue(p, CallRestore(stk[p], "after", k, db[k]))
  /\ UNCHANGED <<db, mgrVars, site, obsVars, envVars>>

\* db.instance.findFirst({apiKey}) completes (part_001:235-242)
getOrRestoreInstance_find(p) ==
  /\ At(p, "getOrRestoreInstance", "find")
  /\ LET k == Top(p).key
     IN \E ok \in BOOLEAN :
          /\ Outcome(ok)
          /\ IF ~ok THEN Throw(p, "findFirst failed")
             ELSE IF ~db[k].exists THEN Return(p, InstVal(0))
             ELSE Continue(p, CallRestore(stk[p], "after", k, db[k]))
  /\ UNCHANGED <<db, mgrVars, site, obsVars, envVars>>

\* after _restoreInstance (part_001:243-244)
getOrRestoreInstance_after(p) ==
  /\ At(p, "getOrRestoreInstance", "after")
  /\ Return(p, InstVal(instances[Top(p).key]))
  /\ UNCHANGED <<db, mgrVars, site, obsVars, faults, envVars>>

\* -------------------------------------------------------------- getStatus
StatusOf(c) ==
  LET isLoggedIn == obj[c].url # "login" /\ obj[c].username # Null
  IN Val(IF isLoggedIn THEN "authenticated" ELSE "anonymous", c,
         IF isLoggedIn THEN obj[c].username ELSE Null, obj[c].url)

getStatus_afterInit(p) ==
  /\ At(p, "getStatus", "afterInit")
  /\ LET c == instances[Top(p).key]
     IN Return(p, IF c = 0 THEN InstVal(0) ELSE StatusOf(c))
  /\ UNCHANGED <<db, mgrVars, site, obsVars, faults, envVars>>


\* ------------------------------------------------------------------ login
\* _attemptLogin is called: the loop `for (attempt = 1; attempt <= retries; ...)`
\* is entered, or skipped and 'Login failed' returned (part_001:265, 309)
CallAttemptLogin(s, f) ==
  IF f.att <= f.retries THEN Append(s, f)
  ELSE Ret(Append(s, f), Val("fail", 0, Null, "Login failed"))

login_afterInit(p) ==
  /\ At(p, "login", "afterInit")
  /\ Continue(p, CallGetOrRestore(stk[p], "got", Top(p).key))
  /\ UNCHANGED <<db, mgrVars, site, obsVars, faults, envVars>>

\* login without the short-circuit: the form is always submitted
login_got_always(p) ==
  /\ At(p, "login", "got")
  /\ LET f == Top(p)
         c == f.rv.inst
     IN IF c = 0
        THEN Throw(p, "Instance not found")
        ELSE Continue(p, CallAttemptLogin(With(stk[p], [f EXCEPT !.pc = "attempted", !.inst = c]),
                                          [Fr("attemptLogin", "prep", f.key) EXCEPT
                                             !.inst = c, !.user = f.user, !.pw = f.pw,
                                             !.retries = f.retries, !.att = 1]))
  /\ UNCHANGED <<db, mgrVars, site, obsVars, faults, envVars>>

\* the short-circuit on a page that is not the login view, or the first
\* attempt (part_001:316-333)
login_got(p) ==
  /\ At(p, "login", "got")
  /\ LET f == Top(p)
         c == f.rv.inst
     IN IF c = 0
        THEN Throw(p, "Instance not found") /\ UNCHANGED obj
        ELSE IF obj[c].url # "login"
        THEN IF obj[c].username = Null
             THEN /\ obj' = [obj EXCEPT ![c].username = f.user]
                  /\ Continue(p, With(stk[p], [f EXCEPT !.pc = "bind", !.inst = c]))
             ELSE /\ UNCHANGED obj
                  /\ Continue(p, CallSave(With(stk[p], [f EXCEPT !.inst = c]), "already", f.key))
        ELSE /\ UNCHANGED obj
             /\ Continue(p, CallAttemptLogin(With(stk[p], [f EXCEPT !.pc = "attempted", !.inst = c]),
                                             [Fr("attemptLogin", "prep", f.key) EXCEPT
                                                !.inst = c, !.user = f.user, !.pw = f.pw,
                                                !.retries = f.retries, !.att = 1]))
  /\ UNCHANGED <<db, instances, nctx, browser, initialized, site, obsVars, faults, envVars>>

\* a login that stores the password with the username
login_bind_password(p) ==
  /\ stk[p] # <<>> /\ Top(p).fn = "login" /\ Top(p).pc \in {"bind", "bound"}
  /\ LET f == Top(p)
     IN \E ok \in BOOLEAN :
          /\ Outcome(ok)
          /\ IF ok /\ db[f.key].exists
             THEN /\ db' = [db EXCEPT ![f.key].username = f.pw]
                  /\ Continue(p, CallSave(stk[p], IF f.pc = "bind" THEN "already" ELSE "loggedIn",
                                          f.key))
             ELSE UNCHANGED db /\ Throw(p, "update failed")
  /\ UNCHANGED <<mgrVars, site, obsVars, envVars>>

\* db.instance.update({username}) completes (part_001:323-329, 338-343)
login_bind(p) ==
  /\ stk[p] # <<>> /\ Top(p).fn = "login" /\ Top(p).pc \in {"bind", "bound"}
  /\ LET f == Top(p)
     IN \E ok \in BOOLEAN :
          /\ Outcome(ok)
          /\ IF ok /\ db[f.key].exists
             THEN /\ db' = [db EXCEPT ![f.key].username = f.user]
                  /\ Continue(p, CallSave(stk[p], IF f.pc = "bind" THEN "already" ELSE "loggedIn",
                                          f.key))
             ELSE UNCHANGED db /\ Throw(p, "update failed")
  /\ UNCHANGED <<mgrVars, site, obsVars, envVars>>

\* every failure of _attemptLogin reported under one message
login_attempted_generic(p) ==
  /\ At(p, "login", "attempted")
  /\ LET f == Top(p)
     IN IF f.rv.tag = "ok"
        THEN /\ obj' = [obj EXCEPT ![f.inst].username = f.user]
             /\ Continue(p, Goto(stk[p], "bound"))
        ELSE UNCHANGED obj /\ Return(p, Val("fail", 0, Null, "Login failed"))
  /\ UNCHANGED <<db, instances, nctx, browser, initialized, site, obsVars, faults, envVars>>

\* the result of _attemptLogin (part_001:333-348)
login_attempted(p) ==
  /\ At(p, "login", "attempted")
  /\ LET f == Top(p)
     IN IF f.rv.tag = "ok"
        THEN /\ obj' = [obj EXCEPT ![f.inst].username = f.user]
             /\ Continue(p, Goto(stk[p], "bound"))
        ELSE UNCHANGED obj /\ Return(p, f.rv)
  /\ UNCHANGED <<db, instances, nctx, browser, initialized, site, obsVars, faults, envVars>>

login_done(p) ==
  /\ stk[p] # <<>> /\ Top(p).fn = "login" /\ Top(p).pc \in {"already", "loggedIn"}
  /\ Return(p, Val("ok", Top(p).inst, Null,
                   IF Top(p).pc = "already" THEN "Already logged in" ELSE "Login successful"))
  /\ logged' = [logged EXCEPT ![Top(p).key] =
                  [user |-> obj[Top(p).inst].username, id |-> obj[Top(p).inst].id]]
  /\ UNCHANGED <<db, mgrVars, site, drove, subs, outs, declined, known, faults, envVars>>

\* ---------------------------------------------------------- _attemptLogin
\* a loop that does not count its turns
NextAttempt_forever(s, last) ==
  LET f == s[Len(s)]
  IN With(s, [f EXCEPT !.pc = "prep", !.att = f.att + 1])

\* a loop that gives up after its first turn
NextAttempt_once(s, last) == Ret(s, Val("fail", 0, Null, last))

\* the catch and the end of one turn of the retry loop (part_001:265, 303-309)
NextAttempt(s, last) ==
  LET f == s[Len(s)]
  IN IF f.att < f.retries THEN With(s, [f EXCEPT !.pc = "prep", !.att = f.att + 1])
     ELSE Ret(s, Val("fail", 0, Null, last))

\* reload on a retry, wait for the form, fill both fields (part_001:268-276)
attemptLogin_prep(p) ==
  /\ At(p, "attemptLogin", "prep")
  /\ drove' = [drove EXCEPT ![p] = TRUE]
  /\ UNCHANGED <<subs, declined, logged, known>>
  /\ LET f == Top(p)
     IN \E ok \in BOOLEAN :
          /\ Outcome(ok)
          /\ IF ok /\ obj[f.inst].open /\ obj[f.inst].url = "login"
             THEN Continue(p, Goto(stk[p], "submit")) /\ UNCHANGED outs
             ELSE /\ Continue(p, NextAttempt(stk[p], "Timeout"))
                  /\ outs' = [outs EXCEPT ![p] = Append(@, "error")]
  /\ UNCHANGED <<db, mgrVars, site, envVars>>

\* submit, wait for the load, look at the url and the content
\* (part_001:278-301)
attemptLogin_submit(p) ==
  /\ At(p, "attemptLogin", "submit")
  /\ drove' = [drove EXCEPT ![p] = TRUE]
  /\ subs' = [subs EXCEPT ![p] = @ + 1]
  /\ UNCHANGED <<declined, logged, known>>
  /\ LET f == Top(p)
         c == f.inst
     IN \E out \in {"navigated", "invalid", "none", "error"} :
          /\ outs' = [outs EXCEPT ![p] = Append(@, out)]
          /\ out = "navigated" => f.pw = "good" /\ obj[c].open
          /\ out = "invalid" => f.pw = "bad" /\ obj[c].open
          /\ Outcome(out \in {"navigated", "invalid"})
          /\ IF out = "navigated"
             THEN /\ obj' = [obj EXCEPT ![c].url = "app", ![c].cookie = TRUE]
                  /\ site' = [site EXCEPT ![f.key] = TRUE]
                  /\ Continue(p, Ret(stk[p], Val("ok", c, Null, "")))
             ELSE /\ UNCHANGED <<obj, site>>
                  /\ Continue(p, NextAttempt(stk[p],
                        CASE out = "invalid" -> "Invalid credentials"
                          [] out = "none" -> "Login failed"
                          [] OTHER -> "Timeout"))
  /\ UNCHANGED <<db, instances, nctx, browser, initialized, envVars>>

\* ----------------------------------------------------------------- logout
logout_afterInit(p) ==
  /\ At(p, "logout", "afterInit")
  /\ LET c == instances[Top(p).key]
     IN IF c = 0 THEN Throw(p, "Instance not found")
        ELSE Continue(p, With(stk[p], [Top(p) EXCEPT !.pc = "clear", !.inst = c]))
  /\ UNCHANGED <<db, mgrVars, site, obsVars, faults, envVars>>

\* clearCookies and the storage wipe complete; username is cleared and the
\* durable update issued (part_001:358-369)
logout_clear(p) ==
  /\ At(p, "logout", "clear")
  /\ Drive(p)
  /\ LET c == Top(p).inst
     IN \E ok \in BOOLEAN :
          /\ Outcome(ok)
          /\ IF ok /\ obj[c].open
             THEN /\ obj' = [obj EXCEPT ![c].cookie = FALSE, ![c].username = Null]
                  /\ Continue(p, Goto(stk[p], "db"))
             ELSE UNCHANGED obj /\ Throw(p, "Target closed")
  /\ UNCHANGED <<db, instances, nctx, browser, initialized, site, envVars>>

\* db.instance.update({username: null, storageState: null}) completes
logout_db(p) ==
  /\ At(p, "logout", "db")
  /\ LET k == Top(p).key
     IN \E ok \in BOOLEAN :
          /\ Outcome(ok)
          /\ IF ok /\ db[k].exists
             THEN /\ db' = [db EXCEPT ![k].username = Null, ![k].storageState = Null]
                  /\ Continue(p, Goto(stk[p], "goto"))
             ELSE UNCHANGED db /\ Throw(p, "update failed")
  /\ UNCHANGED <<mgrVars, site, obsVars, envVars>>

\* page.goto(/login) completes (part_001:371-372)
logout_goto(p) ==
  /\ At(p, "logout", "goto")
  /\ Drive(p)
  /\ LET c == Top(p).inst
     IN \E ok \in BOOLEAN :
          /\ Outcome(ok)
          /\ IF ok /\ obj[c].open
             THEN /\ obj' = [obj EXCEPT ![c].url = "login"]
                  /\ Return(p, Val("ok", c, Null, "Logged out"))
             ELSE UNCHANGED obj /\ Throw(p, "Target closed")
  /\ UNCHANGED <<db, instances, nctx, browser, initialized, site, envVars>>

\* ---------------------------------------------------------- closeInstance
closeInstance_afterInit(p) ==
  /\ At(p, "closeInstance", "afterInit")
  /\ LET c == instances[Top(p).key]
     IN Continue(p, With(stk[p], [Top(p) EXCEPT !.pc = IF c = 0 THEN "delete" ELSE "closing",
                                                !.inst = c]))
  /\ UNCHANGED <<db, mgrVars, site, obsVars, faults, envVars>>

\* context.close() completes or raises (caught); the registry entry is
\* removed and the durable delete issued (part_001:380-395)
closeInstance_closing(p) ==
  /\ At(p, "closeInstance", "closing")
  /\ Drive(p)
  /\ \E ok \in BOOLEAN :
       /\ Outcome(ok)
       /\ obj' = IF ok THEN [obj EXCEPT ![Top(p).inst].open = FALSE] ELSE obj
  /\ instances' = [instances EXCEPT ![Top(p).key] = 0]
  /\ Continue(p, Goto(stk[p], "delete"))
  /\ UNCHANGED <<db, nctx, browser, initialized, site, envVars>>

\* db.instance.delete({apiKey}) completes or raises (part_001:391-403)
closeInstance_delete(p) ==
  /\ At(p, "closeInstance", "delete")
  /\ LET k == Top(p).key
     IN \E ok \in BOOLEAN :
          /\ Outcome(ok)
          /\ IF ok /\ db[k].exists
             THEN db' = [db EXCEPT ![k] = NoRec] /\ Return(p, Val("true", 0, Null, ""))
             ELSE UNCHANGED db /\ Return(p, Val("false", 0, Null, ""))
  /\ UNCHANGED <<mgrVars, site, obsVars, envVars>>


\* --------------------------------------------------------------- shutdown
\* the head of the loop `for (const [apiKey, instance] of this.instances)`
\* from entry i on (entries are visited in the order of their keys): the next
\* registered session is flushed, then its context closed; after the last one
\* `if (this.browser) await this.browser.close()`, else db.$disconnect()
\* (part_001:771-790)
ShutdownNext(s, i) ==
  LET rest == {k \in Keys : k >= i /\ instances[k] # 0}
      k == CHOOSE x \in rest : \A y \in rest : x <= y
      f == s[Len(s)]
  IN IF rest # {}
     THEN CallSave(With(s, [f EXCEPT !.key = k, !.inst = instances[k]]), "close", k)
     ELSE Goto(s, IF browser THEN "browser" ELSE "disconnect")

\* a shutdown that does not tolerate a context closed beforehand
shutdown_close_strict(p) ==
  /\ At(p, "shutdown", "close")
  /\ Drive(p)
  /\ \E ok \in BOOLEAN :
       /\ Outcome(ok)
       /\ IF obj[Top(p).inst].open
          THEN /\ obj' = IF ok THEN [obj EXCEPT ![Top(p).inst].open = FALSE] ELSE obj
               /\ Continue(p, ShutdownNext(stk[p], Top(p).key + 1))
          ELSE UNCHANGED obj /\ Throw(p, "Target closed")
  /\ UNCHANGED <<db, instances, nctx, browser, initialized, site, envVars>>

\* instance.context.close() completes or raises; the catch only logs
\* (part_001:776-780)
shutdown_close(p) ==
  /\ At(p, "shutdown", "close")
  /\ Drive(p)
  /\ \E ok \in BOOLEAN :
       /\ Outcome(ok)
       /\ obj' = IF ok THEN [obj EXCEPT ![Top(p).inst].open = FALSE] ELSE obj
  /\ Continue(p, ShutdownNext(stk[p], Top(p).key + 1))
  /\ UNCHANGED <<db, instances, nctx, browser, initialized, site, envVars>>

\* this.browser.close() completes, and with it every context of the browser
\* is closed, then `this.browser = null`; or it raises, out of shutdown
\* (part_001:783-786)
shutdown_browser(p) ==
  /\ At(p, "shutdown", "browser")
  /\ Drive(p)
  /\ \E ok \in BOOLEAN :
       /\ Outcome(ok)
       /\ IF ok
          THEN /\ browser' = FALSE
               /\ obj' = [c \in Ctxs |-> [obj[c] EXCEPT !.open = FALSE]]
               /\ Continue(p, Goto(stk[p], "disconnect"))
          ELSE UNCHANGED <<browser, obj>> /\ Throw(p, "Target closed")
  /\ UNCHANGED <<db, instances, nctx, initialized, site, envVars>>

\* db.$disconnect() completes (part_001:788-789)
shutdown_disconnect(p) ==
  /\ At(p, "shutdown", "disconnect")
  /\ Return(p, NoVal)
  /\ UNCHANGED <<db, mgrVars, site, obsVars, faults, envVars>>

\* --------------------------------------------------------- security codes
\* a code is a string: the sequence of its characters
Digits == {"0", "1", "2", "3", "4", "5", "6", "7", "8", "9"}
Chars == Digits \cup {"x"}
ascending == <<"0", "1", "2", "3", "4", "5", "6", "7", "8", "9">>
descending == <<"9", "8", "7", "6", "5", "4", "3", "2", "1", "0">>

\* code[i]: undefined past the end of the string
CharAt(code, i) == IF i + 1 <= Len(code) THEN code[i + 1] ELSE "undefined"

\* parseInt of one character: a number, or NaN
NaN == [num |-> FALSE, v |-> 0]
parseInt(ch) ==
  IF ch \in Digits
  THEN [num |-> TRUE, v |-> (CHOOSE n \in 0..9 : ascending[n + 1] = ch)]
  ELSE NaN
\* x + d and x === y on numbers that may be NaN
Plus(x, d) == IF x.num THEN [x EXCEPT !.v = @ + d] ELSE NaN
StrictEq(x, y) == x.num /\ y.num /\ x.v = y.v

\* a string is truthy unless it is empty
Truthy(code) == code # <<>>

\* /^\d{4}$/.test(code) (part_000:953)
Test4Digits(code) == Len(code) = 4 /\ \A i \in 1..4 : code[i] \in Digits

\* the validator with the descending branch left out
isConsecutive_asc(code) ==
  /\ StrictEq(parseInt(CharAt(code, 1)), Plus(parseInt(CharAt(code, 0)), 1))
  /\ StrictEq(parseInt(CharAt(code, 2)), Plus(parseInt(CharAt(code, 1)), 1))
  /\ StrictEq(parseInt(CharAt(code, 3)), Plus(parseInt(CharAt(code, 2)), 1))

\* isConsecutive (part_000:958-964)
isConsecutive(code) ==
  \/ /\ StrictEq(parseInt(CharAt(code, 1)), Plus(parseInt(CharAt(code, 0)), 1))
     /\ StrictEq(parseInt(CharAt(code, 2)), Plus(parseInt(CharAt(code, 1)), 1))
     /\ StrictEq(parseInt(CharAt(code, 3)), Plus(parseInt(CharAt(code, 2)), 1))
  \/ /\ StrictEq(parseInt(CharAt(code, 1)), Plus(parseInt(CharAt(code, 0)), 0 - 1))
     /\ StrictEq(parseInt(CharAt(code, 2)), Plus(parseInt(CharAt(code, 1)), 0 - 1))
     /\ StrictEq(parseInt(CharAt(code, 3)), Plus(parseInt(CharAt(code, 2)), 0 - 1))

\* the validation of POST /shipments (part_000:952-970): the reply is 400
ShipmentsRejects(code) ==
  Truthy(code) /\ (~Test4Digits(code) \/ isConsecutive(code))

\* hay.includes(pin)
Includes(hay, pin) ==
  \E i \in 0..(Len(hay) - Len(pin)) : SubSeq(hay, i + 1, i + Len(pin)) = pin

\* the validation of POST /register (part_000:428-437): the reply is 400
RegisterRejects(code) ==
  Truthy(code) /\ Len(code) = 4 /\ (Includes(ascending, code) \/ Includes(descending, code))

\* the defaults: `securityCode || '5858'` (part_001:531) and the parameter
\* default `securityCode = '8002'` (part_001:571)
DefaultCode == <<"5", "8", "5", "8">>
DefaultMassiveCode == <<"8", "0", "0", "2">>

\* ------------------------------------------------- _getRegistrationResult
\* the content of a page, as far as the extraction looks at it: a sequence
\* of the word 'Registrado', a capital letter, a digit, a hyphen, white space
\* and any other character
Marker == "Registrado"
Upper == {"A"}
Space == {" "}
ContentChars == {Marker, "A", "7", "-", " ", "x"}

\* the end of the longest run of characters of S that starts at position i
\* of s (i - 1 when there is none)
RunEnd(s, i, S) ==
  CHOOSE j \in (i - 1)..Len(s) :
    /\ \A m \in i..j : s[m] \in S
    /\ j = Len(s) \/ s[j + 1] \notin S

\* /([A-Z]\d+)\s*-\s*(\d+)/ matches at position i of s (part_001:758); the
\* classes of neighbouring parts are disjoint, so that each greedy part takes
\* the whole run
MatchAt(s, i) ==
  /\ i \in 1..Len(s) /\ s[i] \in Upper
  /\ LET d1 == RunEnd(s, i + 1, Digits)
         w1 == RunEnd(s, d1 + 1, Space)
         w2 == RunEnd(s, w1 + 2, Space)
         d2 == RunEnd(s, w2 + 1, Digits)
     IN /\ d1 >= i + 1
        /\ w1 < Len(s) /\ s[w1 + 1] = "-"
        /\ d2 >= w2 + 1

\* content.match(...) and the number built from its groups,
\* `${regMatch[1]} - ${regMatch[2]}`; <<>> stands for null (part_001:758-762)
registrationNumberOf(s) ==
  IF \E i \in 1..Len(s) : MatchAt(s, i)
  THEN LET i == CHOOSE i \in 1..Len(s) : MatchAt(s, i) /\ \A j \in 1..(i - 1) : ~MatchAt(s, j)
           d1 == RunEnd(s, i + 1, Digits)
           w2 == RunEnd(s, RunEnd(s, d1 + 1, Space) + 2, Space)
           d2 == RunEnd(s, w2 + 1, Digits)
       IN SubSeq(s, i, d1) \o <<" ", "-", " ">> \o SubSeq(s, w2 + 1, d2)
  ELSE <<>>

\* _getRegistrationResult on a page of the given content whose failure
\* dialog has the given title, Null when the page has no dialog and the read
\* of the title fails (part_001:755-769); the price is not modelled
getRegistrationResult(c, content, title) ==
  IF Includes(content, <<Marker>>)
  THEN [Val("ok", c, Null, "Shipment registered successfully") EXCEPT
          !.registrationNumber = registrationNumberOf(content)]
  ELSE Val("rejected", c, Null, IF title = Null THEN "Unknown error" ELSE title)

\* the pages that the site shows at the end of a workflow: the shipment
\* registered with its number, the word without a number, a failure dialog,
\* nothing
PageRegistered == <<Marker, "A", "7", "-", "7">>
PageNoNumber == <<Marker>>
PageOther == <<"x">>
Pages == {PageRegistered, PageNoNumber, PageOther}

\* ------------------------------------------------------- registerShipment
\* the driver steps of the single-shipment workflow, in the order of the code
\* (part_001:440-545)
WorkflowSteps == <<"reset", "product", "location", "warranty", "recipient",
                   "billing", "declaration", "code", "submit", "marker">>

registerShipment_afterInit(p) ==
  /\ At(p, "registerShipment", "afterInit")
  /\ Continue(p, CallGetOrRestore(stk[p], "got", Top(p).key))
  /\ UNCHANGED <<db, mgrVars, site, obsVars, faults, envVars>>

\* the instance is resolved and the reset navigation issued (part_001:433-442)
registerShipment_got(p) ==
  /\ At(p, "registerShipment", "got")
  /\ LET f == Top(p)
     IN IF f.rv.inst = 0 THEN Throw(p, "Instance not found")
        ELSE Continue(p, With(stk[p], [f EXCEPT !.pc = "w", !.inst = f.rv.inst, !.step = 1]))
  /\ UNCHANGED <<db, mgrVars, site, obsVars, faults, envVars>>

\* one driver step completes; a failure is caught and reported as the
\* result (part_001:555-568). The steps of the two offers first click the
\* text that declines the offer, whatever the flags of the request say, and
\* drop a failure of that click by `.catch(() => { })` (part_001:463-465,
\* 500-503); the step of the sworn declaration drops any failure of its
\* wait and of its clicks (part_001:510-528). The last step is the wait for the text 'Registrado': the site
\* shows it (registered), or shows a failure dialog (rejected), or shows
\* nothing within the 10 s (timeout); the rejection of the wait is dropped by
\* `.catch(() => { })` and, 500 ms later, the result is read from the content
\* that the page then has by _getRegistrationResult (part_001:542-545,
\* 755-769), whose own failure is caught like that of any step; then the
\* state is saved
registerShipment_w(p) ==
  /\ At(p, "registerShipment", "w")
  /\ drove' = [drove EXCEPT ![p] = TRUE]
  /\ UNCHANGED <<subs, logged, known>>
  /\ LET f == Top(p)
         c == f.inst
         name == WorkflowSteps[f.step]
         usable == obj[c].open /\ (name = "reset" \/ obj[c].url = "app")
     IN \E out \in {"done", "registered", "rejected", "timeout", "error"},
           dec \in BOOLEAN, content \in Pages :
          /\ name = "marker" => out # "done"
          /\ name # "marker" => out \in {"done", "error"} /\ content = PageOther
          /\ name \notin {"warranty", "billing", "declaration"} => dec
          /\ name = "declaration" => out = "done"
          /\ out = "registered" => Includes(content, <<Marker>>)
          /\ out \in {"rejected", "error"} => content = PageOther
          /\ Outcome(dec /\ out \in {"done", "registered", "rejected"})
          /\ outs' = IF name = "marker" THEN [outs EXCEPT ![p] = Append(@, out)] ELSE outs
          /\ declined' = IF name \in {"warranty", "billing"} /\ dec /\ usable
                         THEN [declined EXCEPT ![p] = @ \cup {name}] ELSE declined
          /\ IF ~(/\ out # "error"
                   /\ (usable \/ name = "declaration")
                   /\ (name = "code" =>
                         LET code == IF Truthy(f.code) THEN f.code ELSE DefaultCode
                         IN \A i \in 1..Len(code) : code[i] \in Digits))
             THEN UNCHANGED obj /\ Return(p, Val("fail", c, Null, name))
             ELSE IF name = "reset"
             THEN /\ obj' = [obj EXCEPT ![c].url = Landing(c)]
                  /\ Continue(p, With(stk[p], [f EXCEPT !.step = f.step + 1]))
             ELSE IF name = "marker"
             THEN /\ UNCHANGED obj
                  /\ Continue(p, CallSave(With(stk[p],
                        [f EXCEPT !.res =
                           getRegistrationResult(c, content,
                             IF out = "rejected" THEN "dialog" ELSE Null)]),
                        "saved", f.key))
             ELSE /\ UNCHANGED obj
                  /\ Continue(p, With(stk[p], [f EXCEPT !.step = f.step + 1]))
  /\ UNCHANGED <<db, instances, nctx, browser, initialized, site, envVars>>

registerShipment_saved(p) ==
  /\ At(p, "registerShipment", "saved")
  /\ Return(p, Top(p).res)
  /\ UNCHANGED <<db, mgrVars, site, obsVars, faults, envVars>>

\* ------------------------------------------------ registerMassiveShipment
\* what the scrape finds for one order label of the page of pending
\* shipments: the order number matched in the text of its container (0 when
\* no container is found within six ancestors or its text has no order
\* number), the code matched next to it, and whether the container is marked
\* 'time-deleted' (part_001:688-700)
OrderNumbers == {1, 2}
Codes == {"a", "b"}
Labels == [orderNumber : {0} \cup OrderNumbers, code : Codes, isDeleted : BOOLEAN]

\* the same array when an order number already among the results is pushed
\* again
RECURSIVE scrapeResults_all(_)
scrapeResults_all(labels) ==
  IF labels = <<>> THEN <<>>
  ELSE LET results == scrapeResults_all(SubSeq(labels, 1, Len(labels) - 1))
           label == labels[Len(labels)]
       IN IF label.orderNumber # 0 /\ ~label.isDeleted
          THEN Append(results, [orderNumber |-> label.orderNumber, code |-> label.code])
          ELSE results

\* the array `results` after the labels of the page have been visited in
\* document order (part_001:686-712)
RECURSIVE scrapeResults(_)
scrapeResults(labels) ==
  IF labels = <<>> THEN <<>>
  ELSE LET results == scrapeResults(SubSeq(labels, 1, Len(labels) - 1))
           label == labels[Len(labels)]
           exists == \E i \in 1..Len(results) : results[i].orderNumber = label.orderNumber
       IN IF label.orderNumber # 0 /\ ~label.isDeleted /\ ~exists
          THEN Append(results, [orderNumber |-> label.orderNumber, code |-> label.code])
          ELSE results

\* the value of page.evaluate: the last result only (part_001:713-715)
scrape(labels) ==
  LET results == scrapeResults(labels)
  IN IF Len(results) > 0 THEN <<results[Len(results)]>> ELSE <<>>

\* the pages of pending shipments met by the batch workflow: no label, or the
\* label of one pending shipment
NoLabels == <<>>
OneLabel == <<[orderNumber |-> 1, code |-> "a", isDeleted |-> FALSE]>>
PendingPages == {NoLabels, OneLabel}

\* the driver steps of the batch workflow (part_001:580-716)
MassiveSteps == <<"list", "upload", "code", "submit", "scrape">>

registerMassiveShipment_afterInit(p) ==
  /\ At(p, "registerMassiveShipment", "afterInit")
  /\ Continue(p, CallGetOrRestore(stk[p], "got", Top(p).key))
  /\ UNCHANGED <<db, mgrVars, site, obsVars, faults, envVars>>

registerMassiveShipment_got(p) ==
  /\ At(p, "registerMassiveShipment", "got")
  /\ LET f == Top(p)
     IN IF f.rv.inst = 0 THEN Throw(p, "Instance not found")
        ELSE Continue(p, With(stk[p], [f EXCEPT !.pc = "w", !.inst = f.rv.inst, !.step = 1]))
  /\ UNCHANGED <<db, mgrVars, site, obsVars, faults, envVars>>

\* one driver step completes; a failure is rethrown (part_001:731-737)
registerMassiveShipment_w(p) ==
  /\ At(p, "registerMassiveShipment", "w")
  /\ Drive(p)
  /\ LET f == Top(p)
         c == f.inst
         name == MassiveSteps[f.step]
     IN \E ok \in BOOLEAN, labels \in PendingPages :
          /\ name # "scrape" => labels = NoLabels
          /\ Outcome(ok)
          /\ IF ~(/\ ok /\ obj[c].open
                   /\ (name = "list" \/ obj[c].url = "app")
                   /\ (name = "upload" => f.flag)
                   /\ (name = "code" => \A i \in 0..3 : CharAt(f.code, i) # "undefined"))
             THEN UNCHANGED obj /\ Throw(p, name)
             ELSE IF name = "list"
             THEN /\ obj' = [obj EXCEPT ![c].url = Landing(c)]
                  /\ Continue(p, With(stk[p], [f EXCEPT !.step = f.step + 1]))
             ELSE IF name = "scrape"
             THEN /\ UNCHANGED obj
                  /\ Continue(p, CallSave(With(stk[p],
                        [f EXCEPT !.res =
                           [Val("ok", c, Null, "Massive shipment registered successfully")
                              EXCEPT !.shipments = scrape(labels)]]),
                        "saved", f.key))
             ELSE /\ UNCHANGED obj
                  /\ Continue(p, With(stk[p], [f EXCEPT !.step = f.step + 1]))
  /\ UNCHANGED <<db, instances, nctx, browser, initialized, site, envVars>>

registerMassiveShipment_saved(p) ==
  /\ At(p, "registerMassiveShipment", "saved")
  /\ Return(p, Top(p).res)
  /\ UNCHANGED <<db, mgrVars, site, obsVars, faults, envVars>>

\* ------------------------------------------------------ the queue worker
\* the job handler calls registerShipment and hands its outcome on
\* (src/src/tenantManager.js:529-540)
setupWorker_done(p) ==
  /\ At(p, "setupWorker", "done")
  /\ Return(p, Top(p).rv)
  /\ UNCHANGED <<db, mgrVars, site, obsVars, faults, envVars>>


\* --------------------------------------------------------- the HTTP layer
\* the replies of a route
Reply(status, v) == [v EXCEPT !.tag = status]

\* checkApiKey of the first server (part_000:99-151), regular mode, after
\* `await tenantManager.getOrRestoreInstance(apiKey)`
checkApiKey_register(p) ==
  /\ At(p, "register", "checkApiKey")
  /\ LET f == Top(p)
         c == f.rv.inst
     IN IF c = 0 THEN Return(p, Reply("403", Err("Invalid API Key")))
        ELSE IF call[p].instanceId = 0
        THEN Return(p, Reply("400", Err("Missing instanceId in request body")))
        ELSE IF call[p].instanceId # obj[c].id
        THEN Return(p, Reply("403", Err("instanceId does not match the API Key")))
        ELSE Continue(p, With(stk[p], [f EXCEPT !.pc = "handler", !.inst = c]))
  /\ UNCHANGED <<db, mgrVars, site, obsVars, faults, envVars>>

\* the file the handler of POST /register passes on (part_000:439-452): the
\* one generated from the rows when shipments has at least one, else filePath
\* as it came, undefined when the body has none
FileReference(filePath, shipments) == shipments = "rows" \/ filePath

\* the handler of POST /register up to the call of registerMassiveShipment
\* (part_000:424-452); !shipments is false for an empty list
register_handler(p) ==
  /\ At(p, "register", "handler")
  /\ LET f == Top(p)
     IN IF RegisterRejects(f.code)
        THEN Return(p, Reply("400", Err("Security code cannot be a sequence")))
        ELSE IF ~call[p].filePath /\ call[p].shipments = "absent"
        THEN Return(p, Reply("400", Err("Either filePath or shipments must be provided")))
        ELSE Continue(p, EnterWith(Goto(stk[p], "called"),
                                   [Fr("registerMassiveShipment", "afterInit", f.key) EXCEPT
                                      !.code = f.code,
                                      !.flag = FileReference(call[p].filePath,
                                                             call[p].shipments)]))
  /\ UNCHANGED <<db, mgrVars, site, obsVars, faults, envVars>>

\* the result is returned, or the catch replies 500 (part_000:453-460)
register_called(p) ==
  /\ stk[p] # <<>> /\ Top(p).fn = "register" /\ Top(p).pc \in {"called", "catch"}
  /\ Return(p, IF Top(p).pc = "called" THEN Reply("200", Top(p).rv) ELSE Reply("500", Top(p).rv))
  /\ UNCHANGED <<db, mgrVars, site, obsVars, faults, envVars>>

\* checkApiKey of the second server (part_000:595-647, src/src/index.js:23-79),
\* regular mode: tenantManager.getInstance(apiKey)
checkApiKey_shipments(p) ==
  /\ At(p, "shipments", "checkApiKey")
  /\ LET f == Top(p)
         c == instances[f.key]
     IN IF c = 0 THEN Return(p, Reply("403", Err("Invalid API Key or Instance not active")))
        ELSE IF call[p].instanceId = 0
        THEN Return(p, Reply("400", Err("Missing instanceId in request body")))
        ELSE IF call[p].instanceId # obj[c].id
        THEN Return(p, Reply("403", Err("instanceId does not match the API Key")))
        ELSE Continue(p, With(stk[p], [f EXCEPT !.pc = "handler", !.inst = c]))
  /\ UNCHANGED <<db, mgrVars, site, obsVars, faults, envVars>>

\* the handler of POST /shipments up to the call of registerShipment
\* (part_000:924-973, src/src/index.js:140-192); the required fields are given
shipments_handler(p) ==
  /\ At(p, "shipments", "handler")
  /\ LET f == Top(p)
     IN IF ShipmentsRejects(f.code)
        THEN Return(p, Reply("400", Err("securityCode")))
        ELSE Continue(p, EnterWith(Goto(stk[p], "called"),
                                   [Fr("registerShipment", "afterInit", f.key) EXCEPT
                                      !.code = f.code]))
  /\ UNCHANGED <<db, mgrVars, site, obsVars, faults, envVars>>

\* the result is returned (400 when it is not a success), or the catch
\* replies 500 (part_000:972-984)
shipments_called(p) ==
  /\ stk[p] # <<>> /\ Top(p).fn = "shipments" /\ Top(p).pc \in {"called", "catch"}
  /\ Return(p, IF Top(p).pc = "catch" THEN Reply("500", Top(p).rv)
               ELSE IF Top(p).rv.tag = "ok" THEN Reply("200", Top(p).rv)
               ELSE Reply("400", Top(p).rv))
  /\ UNCHANGED <<db, mgrVars, site, obsVars, faults, envVars>>

\* --------------------------------------------------------- callers' side
\* a caller names a key that createInstance has returned, or names the key
\* NumKeys, which createInstance never generates
Issued == known
Unknown == NumKeys
Nameable == Issued \cup {Unknown}

Begin(p, B, c, s) ==
  /\ stk[p] = <<>>
  /\ ops < B
  /\ ops' = ops + 1
  /\ call' = [call EXCEPT ![p] = c]
  /\ result' = [result EXCEPT ![p] = [state |-> "running", val |-> NoVal]]
  /\ drove' = [drove EXCEPT ![p] = FALSE]
  /\ subs' = [subs EXCEPT ![p] = 0]
  /\ outs' = [outs EXCEPT ![p] = <<>>]
  /\ declined' = [declined EXCEPT ![p] = {}]
  /\ logged' = IF c.op \in {"logout", "closeInstance"}
               THEN [logged EXCEPT ![c.key] = NoLogin] ELSE logged
  /\ stk' = [stk EXCEPT ![p] = s]
  /\ UNCHANGED <<db, mgrVars, site, known, faults, restarts, svc>>

Op(op, k) == [NoCall EXCEPT !.op = op, !.key = k]

\* tenantManager.shutdown(), from the onClose hook or from the handlers of
\* uncaughtException / unhandledRejection (part_000:485-488, 511-523); the
\* frame notes whether the engine and every registered context were already
\* released when the call began
ShutDown ==
  /\ ~browser
  /\ \A k \in Keys : instances[k] # 0 => ~obj[instances[k]].open

StartShutdown(p, B) ==
  /\ Begin(p, B, Op("shutdown", 0),
           ShutdownNext(<<[Fr("shutdown", "loop", 0) EXCEPT !.flag = ShutDown]>>, 1))
  /\ UNCHANGED nextKey

\* tenantManager.initialize() at startup (part_000:483)
StartInitialize(p, B) ==
  /\ ~initialized
  /\ Begin(p, B, Op("initialize", 0),
           <<Fr("initialize", IF browser THEN "find" ELSE "launch", 0)>>)
  /\ UNCHANGED nextKey

StartCreateInstance(p, B) ==
  /\ nextKey < NumKeys
  /\ nextKey' = nextKey + 1
  /\ Begin(p, B, Op("createInstance", nextKey),
           LET s == Enter(<<>>, "createInstance", nextKey)
           IN [s EXCEPT ![1].id = IdOf(nextKey)])

StartGetOrRestoreInstance(p, K, B) ==
  \E k \in K :
    /\ Begin(p, B, Op("getOrRestoreInstance", k), <<Fr("getOrRestoreInstance", "entry", k)>>)
    /\ UNCHANGED nextKey

StartGetStatus(p, K, B) ==
  \E k \in K :
    /\ Begin(p, B, Op("getStatus", k), Enter(<<>>, "getStatus", k))
    /\ UNCHANGED nextKey

StartLogin(p, K, U, N, B) ==
  \E k \in K, u \in U, pw \in Passwords, n \in N :
    /\ Begin(p, B, [op |-> "login", key |-> k, user |-> u, pw |-> pw, retries |-> n],
             LET s == Enter(<<>>, "login", k)
             IN [s EXCEPT ![1].user = u, ![1].pw = pw, ![1].retries = n])
    /\ UNCHANGED nextKey

StartLogout(p, K, B) ==
  \E k \in K :
    /\ Begin(p, B, Op("logout", k), Enter(<<>>, "logout", k))
    /\ UNCHANGED nextKey

StartCloseInstance(p, K, B) ==
  \E k \in K :
    /\ Begin(p, B, Op("closeInstance", k), Enter(<<>>, "closeInstance", k))
    /\ UNCHANGED nextKey

\* the flags of a shipment request and their defaults (part_000:898-899)
Flags == [warranty : BOOLEAN, secureBilling : BOOLEAN]
DefaultFlags == {[warranty |-> FALSE, secureBilling |-> FALSE]}

StartRegisterShipment(p, K, D, B) ==
  \E k \in K, d \in D :
    /\ Begin(p, B, [Op("registerShipment", k) EXCEPT
                      !.warranty = d.warranty, !.secureBilling = d.secureBilling],
             Enter(<<>>, "registerShipment", k))
    /\ UNCHANGED nextKey

\* tracker.trackPackage(orderNumber, orderCode), which begins with the read
\* of the cache (src/src/tracker.js:105-119)
StartTrackPackage(p, B) ==
  /\ Begin(p, B, Op("trackPackage", 0), <<Fr("trackPackage", "cache", 0)>>)
  /\ UNCHANGED nextKey

\* agencyService.getAgencies(), which begins with the test of the flag
\* (src/src/tenantManager.js:594-611)
StartGetAgencies(p, B) ==
  /\ Begin(p, B, Op("getAgencies", 0), <<Fr("getAgencies", "poll", 0)>>)
  /\ UNCHANGED nextKey

StartRegisterMassiveShipment(p, K, B) ==
  \E k \in K :
    /\ Begin(p, B, Op("registerMassiveShipment", k),
             EnterWith(<<>>, [Fr("registerMassiveShipment", "afterInit", k) EXCEPT
                                !.code = DefaultMassiveCode, !.flag = TRUE]))
    /\ UNCHANGED nextKey

\* the `concurrency` option of the queue worker
\* (src/src/tenantManager.js:543)
concurrency == 5

\* the jobs that the worker is processing
Jobs == {q \in DOMAIN stk : call[q].op = "job" /\ stk[q] # <<>>}

\* a job of the shipments queue is picked up by the worker, which processes
\* at most `concurrency` jobs at a time
StartJob(p, K, B) ==
  \E k \in K :
    /\ Cardinality(Jobs) < concurrency
    /\ Begin(p, B, Op("job", k), Enter(<<Fr("setupWorker", "done", k)>>, "registerShipment", k))
    /\ UNCHANGED nextKey

\* the security codes and instance ids sent in requests
Str4(a, b, c, d) == <<a, b, c, d>>
HttpCodes ==
  {<<>>, <<"1", "2">>, Str4("1", "2", "3", "4"), Str4("4", "3", "2", "1"),
   Str4("5", "8", "5", "8"), Str4("1", "2", "x", "4"),
   <<"1", "2", "3", "4", "5">>}
HttpIds == {0} \cup {IdOf(k) : k \in Keys}

\* the shipments field of a POST /register body: absent, an empty list, or a
\* list with rows
ShipmentLists == {"absent", "empty", "rows"}

\* the server listens once initialize has returned (part_000:480-488)
Listening == initialized

\* POST /register with the credential key k, a security code of C, a file
\* path or none as F says, and a shipments field of S
StartRegisterWith(p, K, B, C, F, S) ==
  \E k \in K, code \in C, id \in HttpIds, filePath \in F, shipments \in S :
    /\ Listening
    /\ Begin(p, B, [Op("POST /register", k) EXCEPT !.code = code, !.instanceId = id,
                                                  !.filePath = filePath,
                                                  !.shipments = shipments],
             CallGetOrRestore(<<[Fr("register", "checkApiKey", k) EXCEPT !.code = code]>>,
                              "checkApiKey", k))
    /\ UNCHANGED nextKey

\* POST /register with a file path and no shipments field
StartRegister(p, K, B) == StartRegisterWith(p, K, B, HttpCodes, {TRUE}, {"absent"})

\* POST /shipments with the credential key k
StartShipments(p, K, B) ==
  \E k \in K, code \in HttpCodes, id \in HttpIds :
    /\ Listening
    /\ Begin(p, B, [Op("POST /shipments", k) EXCEPT !.code = code, !.instanceId = id],
             <<[Fr("shipments", "checkApiKey", k) EXCEPT !.code = code]>>)
    /\ UNCHANGED nextKey

\* POST /instances and POST /login reach createInstance and login
PostInstances(p, B) == Listening /\ StartCreateInstance(p, B)
PostLogin(p, K, B) == Listening /\ StartLogin(p, K, {"u1"}, {1}, B)

\* the validator of POST /shipments applied to the code of the request
ValidateCode(p) ==
  /\ call[p].op = "validate"
  /\ result[p].state = "idle"
  /\ result' = [result EXCEPT ![p] =
                  [state |-> "returned",
                   val |-> Val(IF ShipmentsRejects(call[p].code) THEN "400" ELSE "next",
                               0, Null, "")]]
  /\ UNCHANGED <<db, mgrVars, site, stk, obsVars, faults, envVars>>

\* --------------------------------------------- the tracker, the agencies
\* what the calls of the two services leave alone
mgrState == <<db, mgrVars, site, obsVars, nextKey, call, ops, restarts>>

\* `this.processing = true` / `this.processing = false` of service s
Lock(s) == svc' = [svc EXCEPT !.processing[s] = TRUE]
Unlock(s) == svc' = [svc EXCEPT !.processing[s] = FALSE]

\* the two responses that the tracker listens for (src/src/tracker.js:198-208)
Responses == {"search", "statuses"}

\* a tracking result made of the captured responses
Tracking(cap) == [Val("tracking", 0, Null, "") EXCEPT !.captured = cap]

\* redisClient.get(cacheKey) completes: a cached result is returned; a miss
\* or an error of the cache goes on to the lock (src/src/tracker.js:105-124)
trackPackage_cache(p) ==
  /\ At(p, "trackPackage", "cache")
  /\ \E ok \in BOOLEAN :
       /\ Outcome(ok)
       /\ IF ok /\ svc.cache # <<>>
          THEN Return(p, Tracking(svc.cache[1]))
          ELSE Continue(p, Goto(stk[p], "poll"))
  /\ UNCHANGED <<mgrState, svc>>

\* the lock taken without looking at the flag
trackPackage_poll_blind(p) ==
  /\ At(p, "trackPackage", "poll")
  /\ Lock("tracker")
  /\ Continue(p, Goto(stk[p], "work"))
  /\ UNCHANGED <<mgrState, faults>>

\* `while (this.processing) await sleep(100)` finds the flag down and
\* `this.processing = true` follows in the same turn
\* (src/src/tracker.js:121-127)
trackPackage_poll(p) ==
  /\ At(p, "trackPackage", "poll")
  /\ ~svc.processing["tracker"]
  /\ Lock("tracker")
  /\ Continue(p, Goto(stk[p], "work"))
  /\ UNCHANGED <<mgrState, faults>>

\* the browser is ensured, the form filled, the listener installed and the
\* search clicked; an error runs the catch and the finally, which lowers the
\* flag (src/src/tracker.js:129-222, 247-260)
trackPackage_work(p) ==
  /\ At(p, "trackPackage", "work")
  /\ \E ok \in BOOLEAN :
       /\ Outcome(ok)
       /\ IF ok THEN Continue(p, Goto(stk[p], "capture")) /\ UNCHANGED svc
          ELSE Throw(p, "tracking failed") /\ Unlock("tracker")
  /\ UNCHANGED mgrState

\* apiResponsePromise settles: with both responses as soon as both are
\* captured; when the 15 s elapse, with what was captured if anything was,
\* with null otherwise, and null is an error (src/src/tracker.js:183-228)
trackPackage_capture(p) ==
  /\ At(p, "trackPackage", "capture")
  /\ \E cap \in SUBSET Responses :
       /\ Outcome(cap = Responses)
       /\ IF cap = {}
          THEN Throw(p, "Timeout waiting for API response") /\ Unlock("tracker")
          ELSE /\ Continue(p, With(stk[p], [Top(p) EXCEPT !.pc = "store", !.todo = cap]))
               /\ UNCHANGED svc
  /\ UNCHANGED mgrState

\* redisClient.set(cacheKey, ...) completes or fails (caught); the result is
\* returned and the finally lowers the flag (src/src/tracker.js:230-260)
trackPackage_store(p) ==
  /\ At(p, "trackPackage", "store")
  /\ \E ok \in BOOLEAN :
       /\ Outcome(ok)
       /\ svc' = [svc EXCEPT !.processing["tracker"] = FALSE,
                             !.cache = IF ok THEN <<Top(p).todo>> ELSE @]
  /\ Return(p, Tracking(Top(p).todo))
  /\ UNCHANGED mgrState

\* getAgencies finds the flag down and raises it
\* (src/src/tenantManager.js:608-613)
getAgencies_poll(p) ==
  /\ At(p, "getAgencies", "poll")
  /\ ~svc.processing["agency"]
  /\ Lock("agency")
  /\ Continue(p, Goto(stk[p], "work"))
  /\ UNCHANGED <<mgrState, faults>>

\* context, page, listener and navigation; an error goes to the finally
\* (src/src/tenantManager.js:618-676, 700-706)
getAgencies_work(p) ==
  /\ At(p, "getAgencies", "work")
  /\ \E ok \in BOOLEAN :
       /\ Outcome(ok)
       /\ Continue(p, IF ok THEN Goto(stk[p], "capture")
                      ELSE With(stk[p], [Top(p) EXCEPT !.pc = "finally",
                                                       !.res = Err("agencies failed")]))
  /\ UNCHANGED <<mgrState, svc>>

\* the response of the agencies API is captured, or the 30 s elapse and null
\* is an error (src/src/tenantManager.js:640-683)
getAgencies_capture(p) ==
  /\ At(p, "getAgencies", "capture")
  /\ \E ok \in BOOLEAN :
       /\ Outcome(ok)
       /\ Continue(p, With(stk[p],
            [Top(p) EXCEPT !.pc = "finally",
                           !.res = IF ok THEN Val("agencies", 0, Null, "")
                                   ELSE Err("Timeout waiting for Agency API response")]))
  /\ UNCHANGED <<mgrState, svc>>

\* the finally: page and context are closed, errors of which are logged,
\* and the flag is lowered (src/src/tenantManager.js:707-716)
getAgencies_finally(p) ==
  /\ At(p, "getAgencies", "finally")
  /\ \E ok \in BOOLEAN : Outcome(ok)
  /\ Unlock("agency")
  /\ IF Top(p).res.tag = "error" THEN Throw(p, Top(p).res.msg) ELSE Return(p, Top(p).res)
  /\ UNCHANGED mgrState

\* _getRegistrationResult applied to the page of the call
ReadResult(p) ==
  /\ call[p].op = "getRegistrationResult"
  /\ result[p].state = "idle"
  /\ result' = [result EXCEPT ![p] =
                  [state |-> "returned",
                   val |-> getRegistrationResult(0, call[p].content, call[p].title)]]
  /\ UNCHANGED <<db, mgrVars, site, stk, obsVars, faults, envVars>>

\* the scrape of the page of pending shipments applied to the labels of the
\* call
Scrape(p) ==
  /\ call[p].op = "scrape"
  /\ result[p].state = "idle"
  /\ result' = [result EXCEPT ![p] =
                  [state |-> "returned",
                   val |-> [Val("ok", 0, Null, "") EXCEPT !.shipments = scrape(call[p].labels)]]]
  /\ UNCHANGED <<db, mgrVars, site, stk, obsVars, faults, envVars>>

\* ------------------------------------------------------- the environment
\* the process exits and is started again: the memory of the manager and the
\* browser are gone, the durable store is kept
Restart ==
  /\ restarts < MaxRestarts
  /\ restarts' = restarts + 1
  /\ svc' = [svc EXCEPT !.processing = [s \in Services |-> FALSE]]
  /\ instances' = [k \in Keys |-> 0]
  /\ obj' = [c \in Ctxs |-> NoObj]
  /\ nctx' = 0
  /\ browser' = FALSE
  /\ initialized' = FALSE
  /\ stk' = [p \in Procs |-> <<>>]
  /\ call' = [p \in Procs |-> NoCall]
  /\ result' = [p \in Procs |-> Idle]
  /\ drove' = [p \in Procs |-> FALSE]
  /\ subs' = [p \in Procs |-> 0]
  /\ outs' = [p \in Procs |-> <<>>]
  /\ declined' = [p \in Procs |-> {}]
  /\ ops' = 0
  /\ UNCHANGED <<db, nextKey, site, logged, known, faults>>

\* the driver closes a context on its own (the page or the browser crashed)
ContextClosed ==
  \E c \in Ctxs :
    /\ obj[c].open
    /\ obj' = [obj EXCEPT ![c].open = FALSE]
    /\ UNCHANGED <<db, instances, nctx, browser, initialized, nextKey, site, stk, call,
                   result, obsVars, ops, faults, restarts, svc>>

\* the external site ends the session of a tenant
SiteExpire ==
  \E k \in Keys :
    /\ site[k]
    /\ site' = [site EXCEPT ![k] = FALSE]
    /\ UNCHANGED <<db, mgrVars, nextKey, stk, call, result, obsVars, ops,
                   faults, restarts>>
    /\ UNCHANGED svc

\* ------------------------------------------------------- specifications
Init ==
  /\ db = [k \in Keys |-> NoRec]
  /\ instances = [k \in Keys |-> 0]
  /\ obj = [c \in Ctxs |-> NoObj]
  /\ nctx = 0
  /\ browser = FALSE
  /\ initialized = FALSE
  /\ nextKey = 1
  /\ site = [k \in Keys |-> FALSE]
  /\ stk = [p \in Procs |-> <<>>]
  /\ call = [p \in Procs |-> NoCall]
  /\ result = [p \in Procs |-> Idle]
  /\ drove = [p \in Procs |-> FALSE]
  /\ subs = [p \in Procs |-> 0]
  /\ outs = [p \in Procs |-> <<>>]
  /\ declined = [p \in Procs |-> {}]
  /\ logged = [k \in Keys |-> NoLogin]
  /\ known = {}
  /\ ops = 0
  /\ faults = 0
  /\ restarts = 0
  /\ svc = NoSvc

InitializeSteps(p) ==
  \/ initialize_launch(p) \/ initialize_find(p) \/ initialize_loop(p) \/ initialize_catch(p)

RestoreSteps(p) ==
  \/ restoreInstance_ctx(p) \/ restoreInstance_goto(p) \/ restoreInstance_touch(p)
  \/ restoreInstance_done(p)
  \/ saveStorageState_state(p) \/ saveStorageState_update(p)
  \/ getOrRestoreInstance_entry(p) \/ getOrRestoreInstance_find(p)
  \/ getOrRestoreInstance_after(p)

CreateSteps(p) ==
  \/ createInstance_afterInit(p) \/ createInstance_launch(p) \/ createInstance_create(p)
  \/ createInstance_ctx(p) \/ createInstance_goto(p)

LoginSteps(p) ==
  \/ login_afterInit(p) \/ login_got(p) \/ login_bind(p) \/ login_attempted(p) \/ login_done(p)
  \/ attemptLogin_prep(p) \/ attemptLogin_submit(p)

LogoutSteps(p) ==
  \/ logout_afterInit(p) \/ logout_clear(p) \/ logout_db(p) \/ logout_goto(p)

CloseSteps(p) ==
  \/ closeInstance_afterInit(p) \/ closeInstance_closing(p) \/ closeInstance_delete(p)

ShipmentSteps(p) ==
  \/ registerShipment_afterInit(p) \/ registerShipment_got(p) \/ registerShipment_w(p)
  \/ registerShipment_saved(p)
  \/ setupWorker_done(p)

MassiveSteps_(p) ==
  \/ registerMassiveShipment_afterInit(p) \/ registerMassiveShipment_got(p)
  \/ registerMassiveShipment_w(p) \/ registerMassiveShipment_saved(p)

Steps(p) ==
  \/ InitializeSteps(p) \/ RestoreSteps(p) \/ CreateSteps(p) \/ getStatus_afterInit(p)
  \/ LoginSteps(p) \/ LogoutSteps(p) \/ CloseSteps(p) \/ ShipmentSteps(p) \/ MassiveSteps_(p)

\* the lifecycle specification: the calls of the manager's interface, one at
\* a time, with failures of the driver and of the durable store, restarts of
\* the process and sessions ended by the site
Starts(p) ==
  \/ StartInitialize(p, MaxOps) \/ StartCreateInstance(p, MaxOps)
  \/ StartGetOrRestoreInstance(p, Nameable, MaxOps) \/ StartGetStatus(p, Nameable, MaxOps)
  \/ StartLogin(p, Nameable, Users, 1..MaxRetries, MaxOps) \/ StartLogout(p, Nameable, MaxOps)
  \/ StartCloseInstance(p, Nameable, MaxOps) \/ StartRegisterShipment(p, Nameable, DefaultFlags, MaxOps)
  \/ StartRegisterMassiveShipment(p, Nameable, MaxOps) \/ StartJob(p, Nameable, MaxOps)

Next == Starts(1) \/ Steps(1) \/ Restart \/ SiteExpire

Spec == Init /\ [][Next]_vars

\* the login specification: one session is created, then login and logout are
\* called on it, one call at a time, with any number of retries up to
\* MaxRetries and enough failures of the driver for every attempt to fail
LoginFaults == MaxRetries + 1

InitLogin ==
  /\ db = [k \in Keys |-> NoRec]
  /\ instances = [k \in Keys |-> 0]
  /\ obj = [c \in Ctxs |-> NoObj]
  /\ nctx = 0
  /\ browser = FALSE
  /\ initialized = FALSE
  /\ nextKey = 1
  /\ site = [k \in Keys |-> FALSE]
  /\ stk = [p \in Procs |-> <<>>]
  /\ call = [p \in Procs |-> NoCall]
  /\ result = [p \in Procs |-> Idle]
  /\ drove = [p \in Procs |-> FALSE]
  /\ subs = [p \in Procs |-> 0]
  /\ outs = [p \in Procs |-> <<>>]
  /\ declined = [p \in Procs |-> {}]
  /\ logged = [k \in Keys |-> NoLogin]
  /\ known = {}
  /\ ops = 0
  /\ faults = MaxFaults - LoginFaults
  /\ restarts = 0
  /\ svc = NoSvc

LoginStarts(p) ==
  \/ StartCreateInstance(p, MaxLoginOps)
  \/ StartLogin(p, Issued, {"u1"}, 0..MaxRetries, MaxLoginOps)
  \/ StartLogout(p, Issued, MaxLoginOps)

LoginManagerSteps(p) ==
  \/ InitializeSteps(p) \/ CreateSteps(p) \/ LoginSteps(p) \/ LogoutSteps(p)
  \/ saveStorageState_state(p) \/ saveStorageState_update(p)

NextLogin == LoginStarts(1) \/ LoginManagerSteps(1)

SpecLogin == InitLogin /\ [][NextLogin]_vars

\* every awaited call of the manager settles (the waits on the driver are all
\* bounded by a timeout), so a call that can take a step takes one
SpecLoginFair == SpecLogin /\ WF_vars(LoginManagerSteps(1))

\* the shutdown specification: the calls of the interface on one side, and
\* shutdown on the other (it is called from the server's onClose hook and
\* from the process-level error handlers, while requests are being served);
\* calls of the driver and of the store may fail, and a context may be closed
\* by the driver. The process starts on an empty store, or with the record of
\* one session that logged in during an earlier life of the process, which the
\* site still honours or not
InitShut ==
  /\ \E pre, live \in BOOLEAN :
       /\ pre \/ ~live
       /\ db = [k \in Keys |-> IF pre /\ k = 1
                               THEN [NewRec(IdOf(1)) EXCEPT !.username = "u1",
                                                            !.storageState = "auth"]
                               ELSE NoRec]
       /\ nextKey = IF pre THEN 2 ELSE 1
       /\ known = IF pre THEN {1} ELSE {}
       /\ site = [k \in Keys |-> live /\ k = 1]
       /\ logged = [k \in Keys |-> IF pre /\ k = 1 THEN [user |-> "u1", id |-> IdOf(1)]
                                   ELSE NoLogin]
  /\ instances = [k \in Keys |-> 0]
  /\ obj = [c \in Ctxs |-> NoObj]
  /\ nctx = 0
  /\ browser = FALSE
  /\ initialized = FALSE
  /\ stk = [p \in Procs |-> <<>>]
  /\ call = [p \in Procs |-> NoCall]
  /\ result = [p \in Procs |-> Idle]
  /\ drove = [p \in Procs |-> FALSE]
  /\ subs = [p \in Procs |-> 0]
  /\ outs = [p \in Procs |-> <<>>]
  /\ declined = [p \in Procs |-> {}]
  /\ ops = 0
  /\ faults = 0
  /\ restarts = 0
  /\ svc = NoSvc

ShutStarts(p) ==
  \/ StartCreateInstance(p, MaxShutOps) \/ StartGetOrRestoreInstance(p, Issued, MaxShutOps)
  \/ StartLogin(p, Issued, {"u1"}, {1}, MaxShutOps)
  \/ StartRegisterShipment(p, Issued, DefaultFlags, MaxShutOps)
  \/ StartRegisterMassiveShipment(p, Issued, MaxShutOps)

ShutManagerSteps(p) ==
  \/ InitializeSteps(p) \/ RestoreSteps(p) \/ CreateSteps(p) \/ LoginSteps(p)
  \/ registerShipment_afterInit(p) \/ registerShipment_got(p) \/ registerShipment_w(p)
  \/ registerShipment_saved(p) \/ MassiveSteps_(p)

ShutdownSteps(p) ==
  \/ shutdown_close(p) \/ shutdown_browser(p) \/ shutdown_disconnect(p)
  \/ saveStorageState_state(p) \/ saveStorageState_update(p)

NextShut ==
  \/ ShutStarts(1) \/ ShutManagerSteps(1)
  \/ StartShutdown(2, MaxShutOps) \/ ShutdownSteps(2)
  \/ ContextClosed

SpecShut == InitShut /\ [][NextShut]_vars

\* the workflow specification: the process starts with the record of one
\* session that logged in during an earlier life of the process, which the
\* site still honours or not; single shipments are requested on it, one at a
\* time, with either value of the two flags of the request; calls of the
\* driver and of the store may fail
InitFlow ==
  /\ db = [k \in Keys |-> IF k = 1
                           THEN [NewRec(IdOf(1)) EXCEPT !.username = "u1",
                                                        !.storageState = "auth"]
                           ELSE NoRec]
  /\ nextKey = 2
  /\ known = {1}
  /\ site \in {[k \in Keys |-> live /\ k = 1] : live \in BOOLEAN}
  /\ logged = [k \in Keys |-> IF k = 1 THEN [user |-> "u1", id |-> IdOf(1)] ELSE NoLogin]
  /\ instances = [k \in Keys |-> 0]
  /\ obj = [c \in Ctxs |-> NoObj]
  /\ nctx = 0
  /\ browser = FALSE
  /\ initialized = FALSE
  /\ stk = [p \in Procs |-> <<>>]
  /\ call = [p \in Procs |-> NoCall]
  /\ result = [p \in Procs |-> Idle]
  /\ drove = [p \in Procs |-> FALSE]
  /\ subs = [p \in Procs |-> 0]
  /\ outs = [p \in Procs |-> <<>>]
  /\ declined = [p \in Procs |-> {}]
  /\ ops = 0
  /\ faults = 0
  /\ restarts = 0
  /\ svc = NoSvc

FlowSteps(p) ==
  \/ InitializeSteps(p)
  \/ restoreInstance_ctx(p) \/ restoreInstance_goto(p) \/ restoreInstance_touch(p)
  \/ restoreInstance_done(p)
  \/ saveStorageState_state(p) \/ saveStorageState_update(p)
  \/ getOrRestoreInstance_find(p) \/ getOrRestoreInstance_after(p)
  \/ registerShipment_afterInit(p) \/ registerShipment_got(p) \/ registerShipment_w(p)
  \/ registerShipment_saved(p)

NextFlow == StartRegisterShipment(1, Issued, Flags, MaxFlowOps) \/ FlowSteps(1)

SpecFlow == InitFlow /\ [][NextFlow]_vars

\* the specification of the ceiling: on a process that has created one
\* session, one more shipment than the worker has slots is requested, each
\* one directly (POST /shipments) or as a job of the queue; the calls are
\* numbered in the order in which they start, and a request arrives when the
\* one before it has issued the first navigation of its workflow; no failure
\* is injected
NumCalls == concurrency + 1
Calls == 1..NumCalls

\* the state in which createInstance leaves the manager and the store
InitCeil ==
  /\ db = [k \in Keys |-> IF k = 1 THEN NewRec(IdOf(1)) ELSE NoRec]
  /\ instances = [k \in Keys |-> IF k = 1 THEN 1 ELSE 0]
  /\ obj = [c \in Ctxs |-> IF c = 1
                            THEN [key |-> 1, id |-> IdOf(1), open |-> TRUE, url |-> "login",
                                  cookie |-> FALSE, username |-> Null]
                            ELSE NoObj]
  /\ nctx = 1
  /\ browser = TRUE
  /\ initialized = TRUE
  /\ nextKey = 2
  /\ site = [k \in Keys |-> FALSE]
  /\ stk = [p \in Calls |-> <<>>]
  /\ call = [p \in Calls |-> NoCall]
  /\ result = [p \in Calls |-> Idle]
  /\ drove = [p \in Calls |-> FALSE]
  /\ subs = [p \in Calls |-> 0]
  /\ outs = [p \in Calls |-> <<>>]
  /\ declined = [p \in Calls |-> {}]
  /\ logged = [k \in Keys |-> NoLogin]
  /\ known = {1}
  /\ ops = 0
  /\ faults = MaxFaults
  /\ restarts = 0
  /\ svc = NoSvc

CeilStarts(p) ==
  /\ call[p].op = "none"
  /\ IF p = 1 THEN TRUE
     ELSE call[p - 1].op # "none" /\ (stk[p - 1] = <<>> \/ At(p - 1, "registerShipment", "w"))
  /\ \/ StartRegisterShipment(p, Issued, DefaultFlags, NumCalls)
     \/ StartJob(p, Issued, NumCalls)

CeilSteps(p) ==
  \/ registerShipment_afterInit(p) \/ registerShipment_got(p) \/ registerShipment_w(p)
  \/ setupWorker_done(p)

NextCeil == \E p \in Calls : CeilStarts(p) \/ CeilSteps(p)

SpecCeil == InitCeil /\ [][NextCeil]_vars

\* the concurrency specification: up to NumProcs calls in flight at once, as
\* the HTTP handlers and the queue worker (concurrency 5,
\* src/src/tenantManager.js:543) start them; no failure is injected
InitRace ==
  /\ db = [k \in Keys |-> NoRec]
  /\ instances = [k \in Keys |-> 0]
  /\ obj = [c \in Ctxs |-> NoObj]
  /\ nctx = 0
  /\ browser = FALSE
  /\ initialized = FALSE
  /\ nextKey = 1
  /\ site = [k \in Keys |-> FALSE]
  /\ stk = [p \in Procs |-> <<>>]
  /\ call = [p \in Procs |-> NoCall]
  /\ result = [p \in Procs |-> Idle]
  /\ drove = [p \in Procs |-> FALSE]
  /\ subs = [p \in Procs |-> 0]
  /\ outs = [p \in Procs |-> <<>>]
  /\ declined = [p \in Procs |-> {}]
  /\ logged = [k \in Keys |-> NoLogin]
  /\ known = {}
  /\ ops = 0
  /\ faults = MaxFaults
  /\ restarts = 0
  /\ svc = NoSvc

RaceStarts(p) ==
  \/ StartCreateInstance(p, MaxRaceOps) \/ StartLogin(p, Issued, {"u1"}, {1}, MaxRaceOps)
  \/ StartLogout(p, Issued, MaxRaceOps) \/ StartCloseInstance(p, Issued, MaxRaceOps)
  \/ StartRegisterShipment(p, Issued, DefaultFlags, MaxRaceOps)
  \/ StartRegisterMassiveShipment(p, Issued, MaxRaceOps) \/ StartJob(p, Issued, MaxRaceOps)

RaceSteps(p) ==
  \/ initialize_launch(p) \/ initialize_find(p) \/ initialize_loop(p)
  \/ restoreInstance_ctx(p) \/ restoreInstance_goto(p) \/ restoreInstance_touch(p)
  \/ restoreInstance_done(p)
  \/ saveStorageState_state(p) \/ saveStorageState_update(p)
  \/ getOrRestoreInstance_find(p) \/ getOrRestoreInstance_after(p)
  \/ createInstance_afterInit(p) \/ createInstance_create(p)
  \/ createInstance_ctx(p) \/ createInstance_goto(p)
  \/ LoginSteps(p) \/ LogoutSteps(p) \/ CloseSteps(p) \/ ShipmentSteps(p) \/ MassiveSteps_(p)

NextRace == \E p \in Procs : RaceStarts(p) \/ RaceSteps(p)

SpecRace == InitRace /\ [][NextRace]_vars

\* the specification of the HTTP layer: the server initializes, listens, and
\* serves one request at a time; POST /register belongs to the first server
\* of part_000 and POST /shipments to the second
HttpSteps(p) ==
  \/ checkApiKey_register(p) \/ register_handler(p) \/ register_called(p)
  \/ checkApiKey_shipments(p) \/ shipments_handler(p) \/ shipments_called(p)

HttpStarts(p) ==
  \/ StartInitialize(p, MaxHttpOps) \/ PostInstances(p, MaxHttpOps)
  \/ PostLogin(p, Issued, MaxHttpOps)
  \/ StartRegister(p, Nameable, MaxHttpOps) \/ StartShipments(p, Nameable, MaxHttpOps)

HttpManagerSteps(p) ==
  \/ InitializeSteps(p)
  \/ restoreInstance_ctx(p) \/ restoreInstance_goto(p) \/ restoreInstance_touch(p)
  \/ restoreInstance_done(p)
  \/ saveStorageState_state(p) \/ saveStorageState_update(p)
  \/ getOrRestoreInstance_find(p) \/ getOrRestoreInstance_after(p)
  \/ CreateSteps(p) \/ LoginSteps(p)
  \/ registerShipment_afterInit(p) \/ registerShipment_got(p) \/ registerShipment_w(p)
  \/ registerShipment_saved(p)
  \/ MassiveSteps_(p)

NextHttp == HttpStarts(1) \/ HttpSteps(1) \/ HttpManagerSteps(1) \/ Restart

SpecHttp == Init /\ [][NextHttp]_vars

\* the HTTP layer with every shape of the body of POST /register
BodyCodes == {Str4("5", "8", "5", "8"), Str4("1", "2", "3", "4")}
BodyStarts(p) ==
  \/ StartInitialize(p, MaxBodyOps) \/ PostInstances(p, MaxBodyOps)
  \/ PostLogin(p, Issued, MaxBodyOps)
  \/ StartRegisterWith(p, Nameable, MaxBodyOps, BodyCodes, BOOLEAN, ShipmentLists)

BodySteps(p) ==
  \/ checkApiKey_register(p) \/ register_handler(p) \/ register_called(p)
  \/ InitializeSteps(p)
  \/ restoreInstance_ctx(p) \/ restoreInstance_goto(p) \/ restoreInstance_touch(p)
  \/ restoreInstance_done(p)
  \/ saveStorageState_state(p) \/ saveStorageState_update(p)
  \/ getOrRestoreInstance_find(p) \/ getOrRestoreInstance_after(p)
  \/ CreateSteps(p) \/ LoginSteps(p)
  \/ MassiveSteps_(p)

NextBody == BodyStarts(1) \/ BodySteps(1) \/ Restart

SpecBody == Init /\ [][NextBody]_vars

\* the specification of the validator of POST /shipments: every string of at
\* most MaxLen characters is given to it
InitCode ==
  /\ db = [k \in Keys |-> NoRec]
  /\ instances = [k \in Keys |-> 0]
  /\ obj = [c \in Ctxs |-> NoObj]
  /\ nctx = 0
  /\ browser = FALSE
  /\ initialized = FALSE
  /\ nextKey = 1
  /\ site = [k \in Keys |-> FALSE]
  /\ stk = [p \in Procs |-> <<>>]
  /\ \E n \in 0..MaxLen : \E code \in [1..n -> Chars] :
       call = [p \in Procs |-> IF p = 1 THEN [Op("validate", 0) EXCEPT !.code = code]
                                ELSE NoCall]
  /\ result = [p \in Procs |-> Idle]
  /\ drove = [p \in Procs |-> FALSE]
  /\ subs = [p \in Procs |-> 0]
  /\ outs = [p \in Procs |-> <<>>]
  /\ declined = [p \in Procs |-> {}]
  /\ logged = [k \in Keys |-> NoLogin]
  /\ known = {}
  /\ ops = 0
  /\ faults = 0
  /\ restarts = 0
  /\ svc = NoSvc

NextCode == ValidateCode(1)

SpecCode == InitCode /\ [][NextCode]_vars

\* the specification of the result extraction: a page of any content up to
\* MaxContent characters, with or without a failure dialog
InitResult ==
  /\ db = [k \in Keys |-> NoRec]
  /\ instances = [k \in Keys |-> 0]
  /\ obj = [c \in Ctxs |-> NoObj]
  /\ nctx = 0
  /\ browser = FALSE
  /\ initialized = FALSE
  /\ nextKey = 1
  /\ site = [k \in Keys |-> FALSE]
  /\ stk = [p \in Procs |-> <<>>]
  /\ \E n \in 0..MaxContent : \E content \in [1..n -> ContentChars] :
       \E title \in {Null, "dialog"} :
         call = [p \in Procs |->
                   IF p = 1 THEN [Op("getRegistrationResult", 0) EXCEPT
                                    !.content = content, !.title = title]
                   ELSE NoCall]
  /\ result = [p \in Procs |-> Idle]
  /\ drove = [p \in Procs |-> FALSE]
  /\ subs = [p \in Procs |-> 0]
  /\ outs = [p \in Procs |-> <<>>]
  /\ declined = [p \in Procs |-> {}]
  /\ logged = [k \in Keys |-> NoLogin]
  /\ known = {}
  /\ ops = 0
  /\ faults = 0
  /\ restarts = 0
  /\ svc = NoSvc

NextResult == ReadResult(1)

SpecResult == InitResult /\ [][NextResult]_vars

\* the specification of the services: calls of trackPackage and getAgencies
\* overlap as the HTTP requests that make them do; the cache, the driver and
\* the capture of the responses may fail
InitTrack ==
  /\ db = [k \in Keys |-> NoRec]
  /\ instances = [k \in Keys |-> 0]
  /\ obj = [c \in Ctxs |-> NoObj]
  /\ nctx = 0
  /\ browser = FALSE
  /\ initialized = FALSE
  /\ nextKey = 1
  /\ site = [k \in Keys |-> FALSE]
  /\ stk = [p \in Procs |-> <<>>]
  /\ call = [p \in Procs |-> NoCall]
  /\ result = [p \in Procs |-> Idle]
  /\ drove = [p \in Procs |-> FALSE]
  /\ subs = [p \in Procs |-> 0]
  /\ outs = [p \in Procs |-> <<>>]
  /\ declined = [p \in Procs |-> {}]
  /\ logged = [k \in Keys |-> NoLogin]
  /\ known = {}
  /\ ops = 0
  /\ faults = 0
  /\ restarts = 0
  /\ svc = NoSvc

TrackSteps(p) ==
  \/ trackPackage_cache(p) \/ trackPackage_poll(p) \/ trackPackage_work(p)
  \/ trackPackage_capture(p) \/ trackPackage_store(p)
  \/ getAgencies_poll(p) \/ getAgencies_work(p) \/ getAgencies_capture(p)
  \/ getAgencies_finally(p)

NextTrack ==
  \E p \in Procs :
    \/ StartTrackPackage(p, MaxTrackOps) \/ StartGetAgencies(p, MaxTrackOps) \/ TrackSteps(p)

SpecTrack == InitTrack /\ [][NextTrack]_vars

\* a process that starts with or without a durable record: initialize is
\* called at startup (part_000:483) and first thing by the operations
\* (part_001:174, 352), and the calls may overlap
StartupStarts(p) ==
  \/ StartInitialize(p, MaxStartupOps) \/ StartCreateInstance(p, MaxStartupOps)
  \/ StartLogout(p, Issued, MaxStartupOps)

StartupSteps(p) ==
  \/ InitializeSteps(p)
  \/ restoreInstance_ctx(p) \/ restoreInstance_goto(p) \/ restoreInstance_touch(p)
  \/ restoreInstance_done(p)
  \/ saveStorageState_state(p) \/ saveStorageState_update(p)
  \/ CreateSteps(p) \/ LogoutSteps(p)

NextStartup == \E p \in Procs : StartupStarts(p) \/ StartupSteps(p)

SpecStartup == InitShut /\ [][NextStartup]_vars

\* the specification of the scrape: a page of pending shipments with up to
\* MaxEntries order labels
InitScrape ==
  /\ db = [k \in Keys |-> NoRec]
  /\ instances = [k \in Keys |-> 0]
  /\ obj = [c \in Ctxs |-> NoObj]
  /\ nctx = 0
  /\ browser = FALSE
  /\ initialized = FALSE
  /\ nextKey = 1
  /\ site = [k \in Keys |-> FALSE]
  /\ stk = [p \in Procs |-> <<>>]
  /\ \E n \in 0..MaxEntries : \E labels \in [1..n -> Labels] :
       call = [p \in Procs |->
                 IF p = 1 THEN [Op("scrape", 0) EXCEPT !.labels = labels] ELSE NoCall]
  /\ result = [p \in Procs |-> Idle]
  /\ drove = [p \in Procs |-> FALSE]
  /\ subs = [p \in Procs |-> 0]
  /\ outs = [p \in Procs |-> <<>>]
  /\ declined = [p \in Procs |-> {}]
  /\ logged = [k \in Keys |-> NoLogin]
  /\ known = {}
  /\ ops = 0
  /\ faults = 0
  /\ restarts = 0
  /\ svc = NoSvc

NextScrape == Scrape(1)

SpecScrape == InitScrape /\ [][NextScrape]_vars

\* ==================================================================
\* Properties of the concurrency specification SpecRace
\* ==================================================================
\* call p has a frame of function fn at one of the positions pcs
Inside(p, fn, pcs) ==
  \E i \in 1..Len(stk[p]) : stk[p][i].fn = fn /\ stk[p][i].pc \in pcs

\* call p has issued the reset navigation of the single-shipment workflow on
\* the session of key k and has neither returned nor failed
InWorkflow(p, k) ==
  /\ call[p].key = k
  /\ Inside(p, "registerShipment", {"w", "saved"})

\* ------------------------------------------------------------------ C1
\* C1: two registerShipment calls on the same credential, whether started
\* directly or by the queue worker, are serialized: no call has issued its
\* reset navigation while another one on the same credential is between its
\* reset navigation and its end.
C1_Serialized ==
  \A p, q \in Procs, k \in Keys :
    p # q => ~(InWorkflow(p, k) /\ InWorkflow(q, k))

\* ------------------------------------------------------------------ C2
\* call p has issued a driver step of its operation on the session of key k
\* and the operation has not ended
Driving(p, k) ==
  /\ call[p].key = k
  /\ \/ Inside(p, "attemptLogin", {"prep", "submit"})
     \/ Inside(p, "login", {"bound", "loggedIn", "already"})
     \/ Inside(p, "logout", {"clear", "db", "goto"})
     \/ Inside(p, "closeInstance", {"closing"})
     \/ Inside(p, "registerShipment", {"w", "saved"})
     \/ Inside(p, "registerMassiveShipment", {"w", "saved"})

\* C2: the operations on one session are totally ordered: no operation has a
\* driver step in flight on a session while another operation on the same
\* session is between its first driver step and its end.
C2_TotalOrder ==
  \A p, q \in Procs, k \in Keys :
    p # q => ~(Driving(p, k) /\ Driving(q, k))

\* ------------------------------------------------------------------ C3
\* the contexts that are open for key k
OpenContexts(k) == {c \in Ctxs : obj[c].open /\ obj[c].key = k}

\* C3: at any time at most one automation context is open for a credential.
C3_OneContext == \A k \in Keys : Cardinality(OpenContexts(k)) <= 1

\* ==================================================================
\* Properties of the validator (SpecCode) and of the HTTP layer (SpecHttp)
\* ==================================================================
\* the strings of exactly 4 digits, and among them the runs of 4 digits that
\* ascend by 1 or descend by 1
FourDigits == [1..4 -> Digits]
Runs == {SubSeq(ascending, i, i + 3) : i \in 1..7} \cup
        {SubSeq(descending, i, i + 3) : i \in 1..7}
ValidCode(code) == code \in FourDigits /\ code \notin Runs

Validated(p) == call[p].op = "validate" /\ result[p].state = "returned"
Rejected(p) == result[p].val.tag = "400"

\* ------------------------------------------------------------------ C6
\* C6 (as amended): the validator of a single-shipment request rejects every
\* non-empty string that is not exactly 4 digits and every 4-digit string
\* whose digits ascend by 1 or descend by 1 (1234, 4321, 0123, 9876, 2345,
\* 5432), and accepts every other 4-digit string (5858, 1357, 0000); the
\* empty string is accepted (it is taken as no code given).
C6_Validator ==
  \A p \in Procs :
    Validated(p) =>
      /\ Rejected(p) <=> (call[p].code # <<>> /\ ~ValidCode(call[p].code))
      /\ call[p].code \in {Str4("1", "2", "3", "4"), Str4("4", "3", "2", "1"),
                           Str4("0", "1", "2", "3"), Str4("9", "8", "7", "6"),
                           Str4("2", "3", "4", "5"), Str4("5", "4", "3", "2")} => Rejected(p)
      /\ call[p].code \in {Str4("5", "8", "5", "8"), Str4("1", "3", "5", "7"),
                           Str4("0", "0", "0", "0")} => ~Rejected(p)

C6_Witness ==
  \E p \in Procs : Validated(p) /\ call[p].code = Str4("9", "8", "7", "6") /\ Rejected(p)

\* C6 (as stated): the validator rejects every string that is not exactly 4
\* digits, the empty string included, and every run, and accepts every other
\* 4-digit string.
C6_Original ==
  \A p \in Procs : Validated(p) => (Rejected(p) <=> ~ValidCode(call[p].code))

\* ------------------------------------------------------------------ C7
\* the request of call p carries a security code that the validation of its
\* route rejects
FailsValidation(p) ==
  \/ call[p].op = "POST /register" /\ RegisterRejects(call[p].code)
  \/ call[p].op = "POST /shipments" /\ ShipmentsRejects(call[p].code)

\* C7: no driver interaction (context opened, navigation, session restore,
\* workflow step) is ever made on behalf of a request whose security code
\* fails validation.
C7_ValidationFirst == \A p \in Procs : FailsValidation(p) => ~drove[p]

\* ------------------------------------------------------------------ C8
\* C8: a batch security code that is not exactly 4 digits, or that is a run of
\* 4 consecutive digits, never reaches registerMassiveShipment.
C8_BatchCodeValidated ==
  \A p \in Procs :
    \A i \in 1..Len(stk[p]) :
      stk[p][i].fn = "registerMassiveShipment" => ValidCode(stk[p][i].code)

\* ==================================================================
\* Properties of the lifecycle specification Spec
\* ==================================================================
Finished(p) == result[p].state \in {"returned", "threw"}
Returned(p, tag) == result[p].state = "returned" /\ result[p].val.tag = tag
Threw(p, msg) == result[p].state = "threw" /\ result[p].val.msg = msg

\* the step is taken by call p (and is not the end of the process)
StepOf(p) == stk'[p] # stk[p] /\ restarts' = restarts

\* ------------------------------------------------------------------ C4
\* the outcome by which an operation says that there is no such session
NotFound(p) ==
  CASE call[p].op \in {"getOrRestoreInstance", "getStatus"} -> Returned(p, "null")
    [] call[p].op = "closeInstance" -> Returned(p, "false")
    [] OTHER -> Threw(p, "Instance not found")

\* the call runs an operation on the key that createInstance never issued
OnUnknown(p) == call[p].key = Unknown /\ call[p].op # "none"

\* C4 (as amended): for the credential that was never created, no registry
\* entry, no durable record and no context ever exists; getOrRestoreInstance
\* ends without a driver interaction; and every operation against it ends
\* with its session-not-found outcome, or with the error of the durable lookup
\* when that lookup itself fails.
C4_NeverCreated ==
  /\ instances[Unknown] = 0
  /\ ~db[Unknown].exists
  /\ \A c \in Ctxs : obj[c].key # Unknown
  /\ \A p \in Procs :
       OnUnknown(p) /\ Finished(p) =>
         /\ NotFound(p) \/ (call[p].op \in {"getOrRestoreInstance", "login", "registerShipment",
                                           "registerMassiveShipment", "job"}
                            /\ Threw(p, "findFirst failed"))
         /\ call[p].op = "getOrRestoreInstance" => ~drove[p]

C4_Witness ==
  \E p \in Procs :
    /\ OnUnknown(p) /\ call[p].op = "login" /\ NotFound(p)
    /\ \E k \in Keys : db[k].exists

\* C4 (as stated): every operation against the never-created credential ends
\* with its session-not-found outcome, getOrRestoreInstance without a driver
\* interaction, and no step of such an operation changes the registry or the
\* durable store.
C4_Original ==
  /\ [](\A p \in Procs :
          OnUnknown(p) /\ Finished(p) =>
            NotFound(p) /\ (call[p].op = "getOrRestoreInstance" => ~drove[p]))
  /\ [][\A p \in Procs :
          OnUnknown(p) /\ StepOf(p) => instances' = instances /\ db' = db]_vars

\* ------------------------------------------------------------------ C5
\* the login call p is on a session that is authenticated: its page is not
\* the login view and a username is bound (part_001:320-331)
LoginInst(p) == IF stk[p][1].pc = "got" THEN stk[p][1].rv.inst ELSE stk[p][1].inst
\* login is at, or past, the test of its page, which is not on the login view
OnAuthenticated(p) ==
  /\ stk[p] # <<>>
  /\ stk[p][1].fn = "login"
  /\ \/ stk[p][1].pc \in {"bind", "already"}
     \/ /\ stk[p][1].pc = "got"
        /\ Len(stk[p]) = 1
        /\ stk[p][1].rv.inst # 0
        /\ obj[stk[p][1].rv.inst].url # "login"

RoundTrip(p, k) ==
  /\ restarts > 0 /\ ops = 1
  /\ call[p].op = "getOrRestoreInstance" /\ call[p].key = k
  /\ Returned(p, "instance")
  /\ obj[result[p].val.inst].url = "app"
  /\ logged[k].user # Null

SameSession(p, k) ==
  LET c == result[p].val.inst
  IN /\ obj[c].id = logged[k].id
     /\ StatusOf(c).tag = "authenticated"
     /\ StatusOf(c).user = logged[k].user

C10_CreateDurable ==
  \A p \in Procs :
    call[p].op = "createInstance" =>
      /\ Returned(p, "created") =>
           /\ db[result[p].val.key].exists
           /\ db[result[p].val.key].id = result[p].val.id
           /\ result[p].val.key = call[p].key
      /\ result[p].state = "returned" => result[p].val.tag = "created"
      /\ Threw(p, "create failed") =>
           /\ instances[call[p].key] = 0
           /\ ~db[call[p].key].exists
           /\ \A c \in Ctxs : obj[c].key # call[p].key

\* the durable create was rejected and createInstance failed
C10_Witness ==
  \E p \in Procs : call[p].op = "createInstance" /\ Threw(p, "create failed")

\* ------------------------------------------------------------------ C11
\* the login call p has gone through _attemptLogin and every attempt so far
\* ended with the invalid-credentials indicator on the page
AllInvalid(p) ==
  /\ call[p].op = "login"
  /\ outs[p] # <<>>
  /\ \A i \in 1..Len(outs[p]) : outs[p][i] = "invalid"

\* C11: when every attempt shows the invalid-credentials indicator, login with
\* retries = n >= 1 submits the credentials once per attempt, never more than
\* n times, and ends after exactly n submissions by returning success:false
\* with the message "Invalid credentials".
C11_InvalidAfterN ==
  \A p \in Procs :
    AllInvalid(p) /\ call[p].retries >= 1 =>
      /\ subs[p] = Len(outs[p])
      /\ subs[p] <= call[p].retries
      /\ Finished(p) =>
           /\ subs[p] = call[p].retries
           /\ Returned(p, "fail")
           /\ result[p].val.msg = "Invalid credentials"

\* a login with retries = MaxRetries ended after MaxRetries rejected submissions
C11_Witness ==
  \E p \in Procs :
    /\ AllInvalid(p) /\ Finished(p)
    /\ call[p].retries = MaxRetries
    /\ subs[p] = MaxRetries
    /\ result[p].val.msg = "Invalid credentials"

\* ------------------------------------------------------------------ C12
LoginRunning(p) == call[p].op = "login" /\ result[p].state = "running"

\* C12: in every login call the credentials are submitted at most `retries`
\* times, at most `retries` attempts are made, whatever each attempt ends with
\* (navigation, indicator, neither, timeout or exception), and every login
\* call that was started ends.
C12_BoundedLogin ==
  /\ [](\A p \in Procs :
          call[p].op = "login" =>
            /\ subs[p] <= call[p].retries
            /\ subs[p] <= Len(outs[p])
            /\ Len(outs[p]) <= call[p].retries)
  /\ \A p \in Procs : LoginRunning(p) ~> Finished(p)

\* a login with retries = MaxRetries ended after an attempt that showed
\* neither a navigation nor the indicator and a last attempt that raised
C12_Witness ==
  \E p \in Procs :
    /\ call[p].op = "login" /\ Finished(p)
    /\ call[p].retries = MaxRetries
    /\ Len(outs[p]) = MaxRetries
    /\ outs[p][1] = "none"
    /\ outs[p][MaxRetries] = "error"

\* ------------------------------------------------------------------ C13
\* login has found its page on the login view and has called _attemptLogin
Attempting(p) ==
  /\ stk[p] # <<>>
  /\ stk[p][1].fn = "login"
  /\ stk[p][1].pc \in {"attempted", "bound", "loggedIn"}

LastOut(p) == outs[p][Len(outs[p])]

Succeeded(p) ==
  /\ Returned(p, "ok") /\ result[p].val.msg = "Login successful"
  /\ outs[p] # <<>> /\ LastOut(p) = "navigated"
InvalidCredentials(p) ==
  /\ Returned(p, "fail") /\ result[p].val.msg = "Invalid credentials"
  /\ outs[p] # <<>> /\ LastOut(p) = "invalid"
TransientFailure(p) ==
  /\ Returned(p, "fail") /\ result[p].val.msg = "Timeout"
  /\ outs[p] # <<>> /\ LastOut(p) = "error"
ExhaustedRetries(p) ==
  /\ Returned(p, "fail") /\ result[p].val.msg = "Login failed"
  /\ outs[p] = <<>> \/ LastOut(p) = "none"
UnsavedUsername(p) ==
  /\ Threw(p, "update failed")
  /\ outs[p] # <<>> /\ LastOut(p) = "navigated"

Closing(p) ==
  /\ stk[p] # <<>>
  /\ stk[p][1].fn = "closeInstance"
  /\ stk[p][1].pc \in {"closing", "delete"}

\* C14: closeInstance releases the context of a live session only when the
\* durable record holds the current auth state of that context (it was
\* flushed); it returns false exactly when neither a live session nor a
\* durable record existed for the key; and when it has ended, the context of
\* the live session is closed and neither a registry entry nor a durable
\* record exists for the key.
C14_CloseInstance ==
  [][\A p \in Procs :
       Closing(p) /\ StepOf(p) =>
         LET f == stk[p][1]
             k == f.key
         IN /\ f.pc = "closing" =>
                 db[k].exists /\ db[k].storageState = StorageStateOf(f.inst)
            /\ stk'[p] = <<>> =>
                 /\ result'[p].state = "returned"
                 /\ result'[p].val.tag = "false" <=> (f.inst = 0 /\ ~db[k].exists)
                 /\ instances'[k] = 0
                 /\ ~db'[k].exists
                 /\ f.inst # 0 => ~obj'[f.inst].open]_vars

\* ---------------------------------------------------------------- C15
\* a step of a running shutdown call
ShutdownStep(p) == StepOf(p) /\ call[p].op = "shutdown" /\ stk[p] # <<>>

ShutdownStarted == \E q \in Procs : call[q].op = "shutdown"

Guarded ==
  {"login", "registerShipment", "registerMassiveShipment", "getOrRestoreInstance",
   "createInstance"}

ShuttingDownError(p) == Threw(p, "shutting down")

\* C16: shutdown is safe concurrently with in-flight operations. Once shutdown
\* has started, a step of a login, registerShipment, registerMassiveShipment,
\* getOrRestoreInstance or createInstance call, in flight or newly invoked,
\* ends the call with the shutting-down error, and opens no context and
\* launches no engine.
C16_ShutdownSafe ==
  [][\A p \in Procs :
       (ShutdownStarted /\ stk[p] # <<>> /\ StepOf(p) /\ call[p].op \in Guarded) =>
         /\ nctx' = nctx
         /\ browser' => browser
         /\ stk'[p] = <<>>
         /\ ShuttingDownError(p)']_vars

\* ---------------------------------------------------------------- C17
\* C17: the password supplied to login is never persisted. In every reachable
\* state every durable record has the columns id, username and storageState
\* next to its key (the timestamps and the isActive flag, which this code
\* never writes, are not modelled), its username is a username
\* given to login or null, its storageState is a serialized context or null:
\* no column ever holds a password.
C17_NoPassword ==
  \A k \in Keys :
    /\ DOMAIN db[k] = {"exists", "id", "username", "storageState"}
    /\ db[k].username \in Users \cup {Null}
    /\ db[k].storageState \in {Null, "auth", "anon"}
    /\ db[k].username \notin Passwords /\ db[k].storageState \notin Passwords
    /\ db[k].exists => db[k].id = IdOf(k)

\* a login has submitted a password and returned success, and the record holds
\* the username and the auth state written by it
C17_Witness ==
  \E p \in Procs :
    /\ call[p].op = "login" /\ call[p].pw \in Passwords /\ subs[p] > 0
    /\ Returned(p, "ok")
    /\ db[call[p].key].username = call[p].user
    /\ db[call[p].key].storageState = "auth"

\* ---------------------------------------------------------------- C18
\* call p is inside _restoreInstance
Restoring(p) == \E i \in 1..Len(stk[p]) : stk[p][i].fn = "restoreInstance"

\* the step of p registers a restored session whose page shows the login view
RestoresStale(p) ==
  /\ At(p, "restoreInstance", "goto")
  /\ instances'[Top(p).key] = Top(p).inst
  /\ obj'[Top(p).inst].url = "login"

Executing ==
  {p \in DOMAIN stk : \/ Inside(p, "registerShipment", {"w", "saved"})
                       \/ Inside(p, "registerMassiveShipment", {"w", "saved"})}

\* C19: across all sessions and all entry paths, direct calls and queue jobs,
\* the number of workflow executions driving the engine at the same time never
\* exceeds the ceiling, the concurrency of the worker.
C19_Ceiling == Cardinality(Executing) <= concurrency

\* ---------------------------------------------------------------- C20
\* the request of call p to POST /shipments has been answered
Answered(p) == call[p].op = "POST /shipments" /\ result[p].state = "returned"

\* what made the attempt of call p end: the site reported a failure, or the
\* driver did not complete a step (the wait for the success marker included)
SiteFailed(p) == outs[p] # <<>> /\ outs[p][Len(outs[p])] = "rejected"
DriverFailed(p) ==
  \/ outs[p] # <<>> /\ outs[p][Len(outs[p])] \in {"timeout", "error"}
  \/ outs[p] = <<>> /\ drove[p] /\ result[p].val.body = "fail"

\* C20: the outcomes of a shipment request are never conflated. The reply to
\* a request rejected for bad input is an {error} object with status 400, the
\* reply to an attempt that the site reported as failed is a {success: false,
\* message} object, the reply to an attempt that the driver could not
\* complete is a {success: false, error, details} object, and each kind of
\* reply is given for its own cause only.
C20_Outcomes ==
  \A p \in Procs :
    Answered(p) =>
      LET v == result[p].val
      IN /\ (ShipmentsRejects(call[p].code) /\ v.tag # "403")
              => v.tag = "400" /\ v.body = "error" /\ ~drove[p]
         /\ SiteFailed(p) => v.tag = "400" /\ v.body = "rejected"
         /\ DriverFailed(p) => v.tag = "400" /\ v.body = "fail"
         /\ v.body = "rejected" => SiteFailed(p)
         /\ v.body = "fail" => DriverFailed(p)

\* ---------------------------------------------------------------- C21
\* call p is in the save that follows a successful operation: the durable
\* writes of a login that navigated away from the login view, or the save of
\* the auth state after a completed shipment workflow
SavingAfter(p) ==
  /\ stk[p] # <<>>
  /\ \/ At(p, "login", "bound")
     \/ Top(p).fn = "saveStorageState" /\ Inside(p, "login", {"loggedIn"})
     \/ Top(p).fn = "saveStorageState" /\ Inside(p, "registerShipment", {"saved"})

\* C21: a failure of the durable store during the save that follows a
\* successful operation is not surfaced and rolls nothing back: no step of
\* that save ends the call with an error, the registry is unchanged, and the
\* session keeps its context open and its username bound.
C21_SaveFailureLogged ==
  [][\A p \in Procs :
       (StepOf(p) /\ SavingAfter(p)) =>
         /\ result'[p].state # "threw"
         /\ instances' = instances
         /\ \A c \in Ctxs : obj'[c].username = obj[c].username /\ obj'[c].open = obj[c].open]_vars

\* ---------------------------------------------------------------- C22
\* C22: session creation creates the durable record and the live handle
\* together: when a createInstance call has ended, by returning or by raising,
\* a record exists for the key it generated exactly when a live session is
\* registered for that key.
C22_CreatedTogether ==
  \A p \in Procs :
    (call[p].op = "createInstance" /\ Finished(p)) =>
      (db[call[p].key].exists <=> instances[call[p].key] # 0)

\* ---------------------------------------------------------------- C23
\* the registry holds key k exactly when the context registered or opened for
\* k is open
LiveOnly(k) ==
  /\ instances[k] # 0 => obj[instances[k]].open
  /\ (\E c \in Ctxs : obj[c].open /\ obj[c].key = k) => instances[k] # 0

\* the step ends call p
Ends(p) == StepOf(p) /\ stk[p] # <<>> /\ stk'[p] = <<>>

\* C23: the registry holds live sessions only. When a call that releases
\* sessions (closeInstance, shutdown) has ended and no other call is in flight,
\* each credential key that the call was about (the key given to
\* closeInstance, the keys in the registry) is in the registry exactly when
\* its context is open.
C23_RegistryLive ==
  [][\A p \in Procs :
       (/\ Ends(p)
        /\ call[p].op \in {"closeInstance", "shutdown"}
        /\ \A q \in Procs : stk'[q] = <<>>)
         => \A k \in Keys : (k = call[p].key \/ instances'[k] # 0) => LiveOnly(k)']_vars

\* ---------------------------------------------------------------- C24
\* the step of call p writes the storageState column of key k
WritesState(p, k) ==
  /\ StepOf(p)
  /\ db[k].exists /\ db'[k].exists
  /\ db'[k].storageState # db[k].storageState

\* C24: the durable auth state is overwritten only by an operation that
\* changed or confirmed the authenticated state: a step that writes a state
\* blob is the update of _saveStorageState for a session whose page is off the
\* login view, and a step that clears the blob is taken by logout.
C24_StateWrites ==
  [][\A p \in Procs, k \in Keys :
       WritesState(p, k) =>
         IF db'[k].storageState # Null
         THEN /\ At(p, "saveStorageState", "update") /\ Top(p).key = k
              /\ obj[Top(p).inst].url = "app"
         ELSE call[p].op = "logout" /\ call[p].key = k]_vars

\* ---------------------------------------------------------------- C25
\* the step of the shutdown call p releases the open context c of a
\* registered session
Releases(p, c) ==
  /\ ShutdownStep(p)
  /\ obj[c].open /\ ~obj'[c].open
  /\ instances[obj[c].key] = c

\* C25: shutdown orders its effects. When a step of shutdown releases the
\* context of a live session, the flush of that session has been attempted
\* before: no call of the driver or of the store having failed, the record
\* holds the state of the context. And when a step of shutdown releases the
\* engine, the context of every live session is already released.
C25_ShutdownOrder ==
  [][\A p \in Procs :
       /\ \A c \in Ctxs :
            (Releases(p, c) /\ faults = 0 /\ db[obj[c].key].exists) =>
               db[obj[c].key].storageState = StorageStateOf(c)
       /\ (ShutdownStep(p) /\ browser /\ ~browser') =>
             \A k \in Keys : instances[k] # 0 => ~obj[instances[k]].open]_vars

\* ---------------------------------------------------------------- C26
\* a driver action or wait of the workflow of call p does not complete
StepFails(p) == StepOf(p) /\ At(p, "registerShipment", "w") /\ faults' # faults

\* C26: in registerShipment a step whose action or wait does not complete
\* ends the operation with a failure that carries the step reached and the
\* error of the driver; no later step is executed and no step is retried.
C26_StepFailureEnds ==
  [][\A p \in Procs :
       /\ StepFails(p) =>
            /\ stk'[p] = <<>>
            /\ result'[p].state = "returned"
            /\ result'[p].val.body = "fail"
            /\ result'[p].val.msg = WorkflowSteps[Top(p).step]
       /\ (StepOf(p) /\ At(p, "registerShipment", "w") /\ stk'[p] # <<>>
             /\ Top(p)'.fn = "registerShipment") => Top(p)'.step = Top(p).step + 1]_vars

\* ---------------------------------------------------------------- C27
\* the wait for the success marker that followed the final submit of call p
\* ended with the marker visible
MarkerSeen(p) == outs[p] # <<>> /\ outs[p][Len(outs[p])] = "registered"

\* C27: an ambiguous submission is treated as a failure: registerShipment
\* returns success only if the success marker became visible within the
\* bounded wait that follows the final submit.
C27_AmbiguousFails ==
  \A p \in Procs :
    (call[p].op = "registerShipment" /\ Returned(p, "ok")) => MarkerSeen(p)

\* ---------------------------------------------------------------- C28
\* the result extraction has been applied to the page of call p
Extracted(p) == call[p].op = "getRegistrationResult" /\ result[p].state = "returned"

\* C28: the result extraction reports success only when the marker is
\* present and a registration number was parsed: every result with success
\* has a registration number that is not null.
C28_SuccessHasNumber ==
  \A p \in Procs :
    (Extracted(p) /\ result[p].val.tag = "ok") => result[p].val.registrationNumber # <<>>

\* ---------------------------------------------------------------- C29
\* C29: the shipment workflow follows the flags of the request: the warranty
\* offer is declined only when the warranty flag is false, and the
\* secure-billing offer only when the secureBilling flag is false.
C29_FollowsFlags ==
  \A p \in Procs :
    call[p].op = "registerShipment" =>
      /\ "warranty" \in declined[p] => ~call[p].warranty
      /\ "billing" \in declined[p] => ~call[p].secureBilling

\* ---------------------------------------------------------------- C30
\* the scrape has been applied to the page of call p
Scraped(p) == call[p].op = "scrape" /\ result[p].state = "returned"

\* label i of the page counts: it has an order number, is not marked deleted,
\* and no label before it that is not marked deleted has its order number
Counted(labels, i) ==
  /\ labels[i].orderNumber # 0
  /\ ~labels[i].isDeleted
  /\ \A j \in 1..(i - 1) :
       labels[j].orderNumber = labels[i].orderNumber => labels[j].isDeleted

\* C30: a completed batch run returns at most one scraped entry: the last,
\* in page order, of the pending-shipment entries that have an order number
\* and are not marked deleted, an order number that appears several times
\* being counted once, where it first appears; no entry marked deleted is
\* returned.
C30_LastEntry ==
  \A p \in Procs :
    Scraped(p) =>
      LET labels == call[p].labels
          out == result[p].val.shipments
          counted == {i \in 1..Len(labels) : Counted(labels, i)}
      IN /\ Len(out) <= 1
         /\ counted = {} <=> out = <<>>
         /\ counted # {} =>
              LET i == CHOOSE i \in counted : \A j \in counted : j <= i
              IN out[1] = [orderNumber |-> labels[i].orderNumber, code |-> labels[i].code]
         /\ \A n \in 1..Len(out) :
              \E i \in 1..Len(labels) :
                /\ ~labels[i].isDeleted
                /\ labels[i].orderNumber = out[n].orderNumber /\ labels[i].code = out[n].code

\* an entry is returned from a page on which an order number appears twice
\* and an entry is marked deleted
C30_Witness ==
  /\ Scraped(1) /\ result[1].val.shipments # <<>>
  /\ LET labels == call[1].labels
     IN /\ \E i, j \in 1..Len(labels) :
             /\ i < j /\ labels[i].orderNumber = labels[j].orderNumber
             /\ labels[i].orderNumber # 0 /\ ~labels[i].isDeleted /\ ~labels[j].isDeleted
             /\ labels[i].code # labels[j].code
        /\ \E i \in 1..Len(labels) : labels[i].isDeleted /\ labels[i].orderNumber # 0

\* ---------------------------------------------------------------- C31
\* the public operations that take a credential key and act on its session
KeyedOps == {"login", "logout", "getStatus", "registerShipment", "registerMassiveShipment"}

\* C31: a session with a durable record and no live handle is rehydrated on
\* use: no public operation that takes a credential key reports not-found,
\* or a null status, for a key whose durable record exists.
C31_Rehydrated ==
  [][\A p \in Procs :
       (Ends(p) /\ call[p].op \in KeyedOps
          /\ db[call[p].key].exists /\ db'[call[p].key].exists) => ~NotFound(p)']_vars

\* ---------------------------------------------------------------- C32
\* call p is inside createInstance or _restoreInstance
Opening(p) ==
  \E i \in 1..Len(stk[p]) : stk[p][i].fn \in {"createInstance", "restoreInstance"}

\* C32: no automation context is leaked: whenever no create and no restore
\* is in progress, each context that was opened is held by a registry entry
\* or has been closed.
C32_NoLeak ==
  (\A p \in Procs : ~Opening(p)) =>
    \A c \in Ctxs : obj[c].open => instances[obj[c].key] = c

\* ---------------------------------------------------------------- C33
\* the restore of key k run by call p raises: its frame is dropped by a
\* rejection, which ends the call or is caught by initialize
RestoreRaises(p, k) ==
  /\ StepOf(p)
  /\ \E i \in 1..Len(stk[p]) : stk[p][i].fn = "restoreInstance" /\ stk[p][i].key = k
  /\ \A i \in 1..Len(stk'[p]) : stk'[p][i].fn # "restoreInstance"
  /\ IF stk'[p] = <<>> THEN result'[p].state = "threw"
     ELSE Top(p)'.fn = "initialize" /\ Top(p)'.rv.tag = "error"

\* C33: a failed restore leaves no live session: when getOrRestoreInstance,
\* or _restoreInstance during initialize, raises an error, no session of
\* that credential key is in the registry.
C33_FailedRestore ==
  [][\A p \in Procs, k \in Keys : RestoreRaises(p, k) => instances'[k] = 0]_vars

\* ---------------------------------------------------------------- C34
\* no call is in progress
Quiet == \A p \in Procs : stk[p] = <<>>

\* C34: every live session has a durable record: whenever no operation is
\* in progress, a registry entry for a credential key implies a durable
\* record for it, under any interleaving of closeInstance with the
\* operations that restore.
C34_LiveHasRecord ==
  Quiet => \A k \in Keys : instances[k] # 0 => db[k].exists

LockedFn(s) == IF s = "tracker" THEN "trackPackage" ELSE "getAgencies"

\* call p is between raising and lowering the flag of service s
Holding(p, s) ==
  /\ stk[p] # <<>>
  /\ Top(p).fn = LockedFn(s)
  /\ Top(p).pc \notin {"cache", "poll"}

\* C36: the polling lock of the tracker and of the agency service gives
\* mutual exclusion and is always released: per service at most one call is
\* between raising the flag `processing` and lowering it, and the flag is
\* down again after every way out of the call, return or error.
C36_PollingLock ==
  \A s \in Services :
    /\ \A p, q \in Procs : (Holding(p, s) /\ Holding(q, s)) => p = q
    /\ svc.processing[s] <=> \E p \in Procs : Holding(p, s)

\* a call of the tracker has ended with an error, and another call holds the
\* lock
C36_Witness ==
  \E p, q \in Procs :
    /\ call[p].op = "trackPackage" /\ result[p].state = "threw" /\ stk[p] = <<>>
    /\ Holding(q, "tracker")

\* ---------------------------------------------------------------- C37
\* C37: trackPackage returns, and stores in the cache, a tracking result only
\* when both the search response and the statuses response were captured;
\* when the capture window elapses without both, the call fails and nothing
\* is cached.
C37_BothCaptured ==
  /\ \A p \in Procs :
       (call[p].op = "trackPackage" /\ result[p].state = "returned")
         => result[p].val.captured = Responses
  /\ svc.cache # <<>> => svc.cache[1] = Responses

\* ---------------------------------------------------------------- C38
\* the body of the request carries neither a file path nor a shipment row
NoFileNoRows(p) ==
  /\ call[p].op = "POST /register"
  /\ ~call[p].filePath /\ call[p].shipments \in {"absent", "empty"}

\* C38: a batch registration request that supplies neither a file path nor at
\* least one shipment row (shipments absent or an empty list) is rejected
\* with a validation error, and registerMassiveShipment is never invoked
\* without a file reference.
C38_FileOrRows ==
  \A p \in Procs :
    /\ NoFileNoRows(p) =>
         /\ \A i \in 1..Len(stk[p]) : stk[p][i].fn # "registerMassiveShipment"
         /\ result[p].state = "returned" => result[p].val.tag \in {"400", "403"}
    /\ \A i \in 1..Len(stk[p]) :
         stk[p][i].fn = "registerMassiveShipment" => stk[p][i].flag

\* ---------------------------------------------------------------- C39
\* the step of p is a launch of the engine by initialize that succeeds
InitializeLaunches(p) ==
  /\ StepOf(p) /\ At(p, "initialize", "launch")
  /\ stk'[p] # <<>> /\ Top(p)'.fn = "initialize" /\ Top(p)'.pc = "find"

\* with its step the loop of initialize in p begins the restore of record k
InitializeRestores(p, k) ==
  /\ StepOf(p) /\ At(p, "initialize", "loop")
  /\ k \in Top(p).todo
  /\ \E i \in 1..Len(stk'[p]) :
       stk'[p][i].fn = "restoreInstance" /\ stk'[p][i].key = k

\* a restore of record k is under way in q
RestoringKey(q, k) ==
  \E i \in 1..Len(stk[q]) : stk[q][i].fn = "restoreInstance" /\ stk[q][i].key = k

\* C39: initialize takes effect at most once under concurrency: for any
\* number of overlapping initialize calls, from startup and from operations
\* that call it first, the shared engine is launched at most once (no launch
\* of initialize succeeds while an engine is there) and each durable record
\* is restored at most once (no loop of initialize begins the restore of a
\* record whose session is registered or whose restore is under way).
C39_InitializeOnce ==
  [][\A p \in Procs :
       /\ InitializeLaunches(p) => ~browser
       /\ \A k \in Keys :
            InitializeRestores(p, k) =>
              /\ instances[k] = 0
              /\ \A q \in Procs \ {p} : ~RestoringKey(q, k)]_vars

====
